---- MODULE Spec2Model ----
(***************************************************************************)
(* Model of the extraction core of chainspark-oss:                         *)
(*   lib/core/rate-limiter.ts        RateLimiter (Call Scheduler)          *)
(*   lib/core/errors.ts              ExtractionError taxonomy, wrapError   *)
(*   lib/core/extraction-pipeline.ts ExtractionPipeline (Orchestrator)     *)
(*                                                                         *)
(* Time is the value Date.now() returns.  It advances only where the code  *)
(* suspends on a timer or on the wrapped operation: sleep(ms) resumes no   *)
(* sooner than ms later, the wrapped operation takes any duration >= 0.    *)
(* The code between two suspension points runs in one action, so the       *)
(* wrapped operation starts at the instant waitForNextSlot stamps          *)
(* lastCallTime.  The clock never goes back.                               *)
(*                                                                         *)
(* Strings are sequences of text fragments; toLowerCase, trim, includes    *)
(* and concatenation act on the fragments.                                 *)
(***************************************************************************)
EXTENDS Integers, Sequences, FiniteSets, TLC

\* ------------------------------------------------------------------------
\* Bounds of the model
\* ------------------------------------------------------------------------
MaxDelay == 2        \* delayMs of a RateLimiter under test ranges over 0..MaxDelay
MaxRetriesCfg == 3   \* maxRetries of a RateLimiter under test ranges over 0..MaxRetriesCfg
MaxCalls == 2        \* public operations one caller starts on a RateLimiter
MaxGap == 2          \* time a caller lets pass between two operations: 0..MaxGap
MaxJitter == 1       \* extra time a timer takes beyond the requested delay: 0..MaxJitter
MaxFnDur == 1        \* duration of one invocation of the wrapped operation: 0..MaxFnDur
MaxChunks == 2       \* chunks handed to one extractFromPages run: 0..MaxChunks
MaxPageNumber == 2   \* pageNumber of a chunk: 1..MaxPageNumber
MaxPageItems == 2    \* items one generation call returns: 0..MaxPageItems
MaxTextLen == 7      \* characters of a text handed to a splitting utility: 0..MaxTextLen
MaxChunkSize == 6    \* maxChunkSize handed to chunkBySize: 1..MaxChunkSize
MaxLoopTextLen == 5  \* characters of a text whose chunkBySize loop is followed step by step

\* ------------------------------------------------------------------------
\* Values
\* ------------------------------------------------------------------------
Undefined == "undefined"   \* an absent string-valued field
NoNumber == -1             \* an absent number-valued field (undefined)

DefaultDelayMs == 7000
DefaultMaxRetries == 3
DEFAULT_RATE_LIMIT == [delayMs |-> DefaultDelayMs, maxRetries |-> DefaultMaxRetries]

RECURSIVE Pow2(_)
Pow2(n) == IF n <= 0 THEN 1 ELSE 2 * Pow2(n - 1)

\* Variant: the second argument whatever the first.
MaxSecond(a, b) == b

Max(a, b) == IF a >= b THEN a ELSE b

\* String.prototype.toLowerCase on one text fragment
LowerFragment(w) ==
    CASE w = "Rate Limit" -> "rate limit"
      [] w = "RATE_LIMIT" -> "rate_limit"
      [] w = "QUOTA" -> "quota"
      [] w = "Quota" -> "quota"
      [] w = "Too Many Requests" -> "too many requests"
      [] w = "Simulated LLM Failure" -> "simulated llm failure"
      [] w = "Shared ID" -> "shared id"
      [] w = "SHARED ID" -> "shared id"
      [] w = "Other" -> "other"
      [] w = "API call" -> "api call"
      [] w = "Page" -> "page"
      [] w = "Extraction failed for schema" -> "extraction failed for schema"
      [] w = "Rate limit" -> "rate limit"
      [] w = "Quota exceeded" -> "quota exceeded"
      [] w = "Slow down" -> "slow down"
      [] OTHER -> w

ToLowerCase(s) == [i \in 1..Len(s) |-> LowerFragment(s[i])]

\* The fragments that hold a shorter text inside them: <<w, p>> when
\* w.indexOf(p) >= 0 and w # p
FragmentContains == { <<"quota-report", "quota">>, <<"quota exceeded", "quota">> }

\* String.prototype.includes, for a one-fragment pattern
Includes(s, pattern) ==
    \E i \in 1..Len(s) : s[i] = pattern \/ <<s[i], pattern>> \in FragmentContains

\* ------------------------------------------------------------------------
\* errors.ts
\* ------------------------------------------------------------------------
\* An Error value: cls is its class, code its ErrorCode (Undefined for a plain
\* Error), message its message, retryAfterMs/attemptsMade the RateLimitError
\* fields, cause = <<m>> when metadata.cause is an Error with message m and
\* << >> when there is none.
PlainError(msg) ==
    [cls |-> "Error", code |-> Undefined, message |-> msg,
     retryAfterMs |-> NoNumber, attemptsMade |-> NoNumber, cause |-> << >>]

ExtractionError(code, msg, cause) ==
    [cls |-> "ExtractionError", code |-> code, message |-> msg,
     retryAfterMs |-> NoNumber, attemptsMade |-> NoNumber, cause |-> cause]

RateLimitError(msg, retryAfterMs, attemptsMade) ==
    [cls |-> "RateLimitError", code |-> "RATE_LIMIT", message |-> msg,
     retryAfterMs |-> retryAfterMs, attemptsMade |-> attemptsMade, cause |-> << >>]

SchemaValidationError(msg) ==
    [cls |-> "SchemaValidationError", code |-> "SCHEMA_VALIDATION_FAILED", message |-> msg,
     retryAfterMs |-> NoNumber, attemptsMade |-> NoNumber, cause |-> << >>]

\* A thrown value that is not an Error (a string); String(value) is msg.
ThrownValue(msg) ==
    [cls |-> "NonError", code |-> Undefined, message |-> msg,
     retryAfterMs |-> NoNumber, attemptsMade |-> NoNumber, cause |-> << >>]

\* error instanceof ExtractionError
IsExtractionError(e) ==
    e.cls \in {"ExtractionError", "RateLimitError", "SchemaValidationError"}

\* error instanceof Error
IsError(e) == e.cls # "NonError"

\* Variant: an ExtractionError is wrapped like any other value.
WrapErrorAlways(e, context) ==
    ExtractionError("UNKNOWN",
                    IF context # << >> THEN context \o <<":">> \o e.message
                                       ELSE e.message,
                    IF IsError(e) THEN <<e.message>> ELSE << >>)

\* wrapError(error, context); context = << >> when omitted
WrapError(e, context) ==
    IF IsExtractionError(e) THEN e
    ELSE ExtractionError("UNKNOWN",
                         IF context # << >> THEN context \o <<":">> \o e.message
                                            ELSE e.message,
                         IF IsError(e) THEN <<e.message>> ELSE << >>)

\* ------------------------------------------------------------------------
\* rate-limiter.ts : pure parts
\* ------------------------------------------------------------------------
ThrottlePatterns == {"429", "rate limit", "rate_limit", "quota", "too many requests"}

\* Variant: the message is searched as written.
IsRateLimitErrorCaseSensitive(e) ==
    \E p \in ThrottlePatterns : Includes(e.message, p)

\* RateLimiter.isRateLimitError
IsRateLimitError(e) ==
    LET message == ToLowerCase(e.message)
    IN  \E p \in ThrottlePatterns : Includes(message, p)

\* Variant: the time already elapsed is counted from one tick too early.
RemainingShort(t, last, delayMs) == delayMs - (t - last) - 1

\* Variant: only half of the delay is waited for.
RemainingHalved(t, last, delayMs) == (delayMs \div 2) - (t - last)

\* waitForNextSlot: remaining = delayMs - (now - lastCallTime)
Remaining(t, last, delayMs) == delayMs - (t - last)

\* Variant: the backoff is half of the delay, whatever the attempt.
BackoffMsHalfDelay(att, delayMs) == delayMs \div 2

\* Variant: the backoff grows as 2^(attempt-1).
BackoffMsLate(att, delayMs) == Pow2(att - 1) * delayMs

\* execute: backoffMs = Math.pow(2, attempt) * delayMs
BackoffMs(att, delayMs) == Pow2(att) * delayMs

\* error instanceof Error ? error : new Error(String(error))
AsError(e) == IF IsError(e) THEN e ELSE PlainError(e.message)

\* Variant: the last attempt is retried too.
ShouldRetryInclusive(isRateLimitError, att, maxRetries) ==
    isRateLimitError /\ att <= maxRetries

\* Variant: every failure is retried.
ShouldRetryAny(isRateLimitError, att, maxRetries) == att < maxRetries

\* execute: isRateLimitError && attempt < this.config.maxRetries
ShouldRetry(isRateLimitError, att, maxRetries) ==
    isRateLimitError /\ att < maxRetries

\* ------------------------------------------------------------------------
\* extraction-pipeline.ts : pure parts
\* ------------------------------------------------------------------------
\* An extracted item.  description is a string (hasDescription) or absent;
\* confidence is a number (hasConfidence) or absent.
Item(name, hasDescription, description, hasConfidence, confidence) ==
    [name |-> name, hasDescription |-> hasDescription, description |-> description,
     hasConfidence |-> hasConfidence, confidence |-> confidence]

IsWhitespace(w) == w \in {" ", "\n"}

\* String.prototype.trim
RECURSIVE TrimStart(_)
TrimStart(s) ==
    IF s # << >> /\ IsWhitespace(Head(s)) THEN TrimStart(Tail(s)) ELSE s

RECURSIVE TrimEnd(_)
TrimEnd(s) ==
    IF s # << >> /\ IsWhitespace(s[Len(s)]) THEN TrimEnd(SubSeq(s, 1, Len(s) - 1)) ELSE s

Trim(s) == TrimEnd(TrimStart(s))

\* JSON.stringify(item): the own properties in order, absent ones left out
JsonStringify(item) ==
    <<"{", "name:", item.name>>
    \o (IF item.hasDescription THEN <<"description:">> \o item.description ELSE << >>)
    \o (IF item.hasConfidence THEN <<"confidence:", ToString(item.confidence)>> ELSE << >>)
    \o <<"}">>

\* Variant: the description is used as written.
DedupKeyRaw(item) ==
    IF item.hasDescription THEN item.description ELSE JsonStringify(item)

\* deduplicateItems: the key of one item
DedupKey(item) ==
    IF item.hasDescription      \* typeof item.description === "string"
    THEN Trim(ToLowerCase(item.description))
    ELSE JsonStringify(item)

\* deduplicateItems: the loop over items[idx..], with the Set seen and the
\* list deduplicated built so far
RECURSIVE DedupLoop(_, _, _, _)
DedupLoop(items, idx, seen, deduplicated) ==
    IF idx > Len(items) THEN deduplicated
    ELSE LET key == DedupKey(items[idx])
         IN  IF key \notin seen
             THEN DedupLoop(items, idx + 1, seen \cup {key}, Append(deduplicated, items[idx]))
             ELSE DedupLoop(items, idx + 1, seen, deduplicated)

\* ExtractionPipeline.deduplicateItems
DeduplicateItems(items) == DedupLoop(items, 1, {}, << >>)

\* allItems.reduce((sum, item) => sum + (item.confidence || 0), 0)
RECURSIVE TotalConfidence(_)
TotalConfidence(items) ==
    IF items = << >> THEN 0
    ELSE (IF Head(items).hasConfidence THEN Head(items).confidence ELSE 0)
         + TotalConfidence(Tail(items))

\* extractFromPages: averageConfidence.  A defined value is the quotient
\* total / count, kept as the pair; undefined has defined = FALSE.
AverageConfidence(items) ==
    IF Len(items) > 0 /\ items[1].hasConfidence
    THEN [defined |-> TRUE, total |-> TotalConfidence(items), count |-> Len(items)]
    ELSE [defined |-> FALSE, total |-> 0, count |-> 0]

\* Variant: a failed chunk is recorded as an empty success.
PageResultLenient(res, pageNum) ==
    [items |-> IF res.kind = "returned" THEN res.value ELSE << >>,
     pageNumber |-> pageNum, success |-> TRUE]

\* Variant: every failure is recorded with the code UNKNOWN.
PageResultUnknownCode(res, pageNum) ==
    IF res.kind = "returned"
    THEN [items |-> res.value, pageNumber |-> pageNum, success |-> TRUE]
    ELSE [items |-> << >>, pageNumber |-> pageNum, success |-> FALSE,
          error |-> WrapError(res.error, << >>).message, errorCode |-> "UNKNOWN"]

\* extractFromPages: the entry pushed to pageResults for one execute result
PageResult(res, pageNum) ==
    IF res.kind = "returned"
    THEN [items |-> res.value, pageNumber |-> pageNum, success |-> TRUE]
    ELSE LET exError == WrapError(res.error, << >>)
         IN  [items |-> << >>, pageNumber |-> pageNum, success |-> FALSE,
              error |-> exError.message, errorCode |-> exError.code]

\* Variant: the count is taken after deduplication.
ItemsBeforeDedupLate(aggregate) == Len(DeduplicateItems(aggregate))

\* extractFromPages: itemsBeforeDedup = allItems.length, before deduplication
ItemsBeforeDedup(aggregate) == Len(aggregate)

\* Variant: the filter keeps the successful pages.
PagesFailedInverted(results) ==
    Cardinality({k \in 1..Len(results) : results[k].success})

\* pageResults.filter((r) => !r.success).length
PagesFailed(results) == Cardinality({k \in 1..Len(results) : ~results[k].success})

\* extractFromPages: the returned object, from the aggregate allItems,
\* the pageResults, the chunk list and the elapsed time
BuildResult(aggregate, results, chunkList, elapsed) ==
    LET itemsBeforeDedup == ItemsBeforeDedup(aggregate)
        deduped == DeduplicateItems(aggregate)
    IN  [items |-> deduped,
         pagesProcessed |-> Len(chunkList),
         pagesFailed |-> PagesFailed(results),
         pageResults |-> results,
         metrics |-> [totalItems |-> Len(deduped),
                      itemsBeforeDedup |-> itemsBeforeDedup,
                      processingTimeMs |-> elapsed,
                      averageConfidence |-> AverageConfidence(deduped)]]

\* extractSingle, given what buildPrompt and generateObject do: gen.stage
\* names the step that fails ("none" when generation returns gen.items)
ExtractSingle(gen, extr) ==
    CASE gen.stage = "none" -> [ok |-> TRUE, value |-> gen.items]
      [] gen.stage = "prompt" -> [ok |-> FALSE, error |-> gen.error]
      [] gen.stage = "generate" ->
            [ok |-> FALSE,
             error |-> WrapError(gen.error, <<"Extraction failed for schema", extr.name>>)]

\* ------------------------------------------------------------------------
\* State
\* ------------------------------------------------------------------------
VARIABLES
    now,            \* Date.now()
    lastCallTime,   \* RateLimiter.lastCallTime
    config,         \* RateLimiter.config
    metrics,        \* RateLimiter.metrics
    pc,             \* where the caller of the RateLimiter is suspended
    op,             \* the public operation in progress
    attempt,        \* execute: loop variable
    sleepMs,        \* argument of the pending sleep()
    operationName,  \* execute: operationName
    lastError,      \* execute: lastError, << >> for null and <<e>> for an Error e
    result,         \* how the last operation ended
    h               \* history of invocations, for stating properties

VARIABLES
    held            \* the object the caller got from getConfig or getMetrics

VARIABLES
    pipePc,         \* extractFromPages: "idle", "running", "completed"
    chunks,         \* extractFromPages: chunks
    extractor,      \* extractFromPages: extractor
    i,              \* extractFromPages: loop variable
    pageResults,    \* extractFromPages: pageResults
    allItems,       \* extractFromPages: allItems
    startTime,      \* extractFromPages: startTime
    pipeResult,     \* what extractFromPages returned
    onProgress,     \* ExtractionPipeline.onProgress: "absent" or "present"
    ph              \* history of the run, for stating properties

VARIABLES
    split,          \* the last call of a splitting utility, with what it returned
    response        \* the request the route handler got, with its response

VARIABLES
    peer            \* a second caller of the RateLimiter, or a second run

rlVars == <<now, lastCallTime, config, metrics, pc, op, attempt, sleepMs,
            operationName, lastError, result, h>>
pipeVars == <<pipePc, chunks, extractor, i, pageResults, allItems, startTime,
              pipeResult, onProgress, ph>>
utilVars == <<split, response, peer>>
otherVars == <<pipeVars, held, utilVars>>
vars == <<rlVars, pipeVars, held, utilVars>>

ZeroMetrics ==
    [totalExecutions |-> 0, totalWaitTimeMs |-> 0, totalRetries |-> 0,
     totalFailures |-> 0, lastExecutionAt |-> NoNumber]

NoResult == [kind |-> "none"]

\* h.calls      operations started so far
\* h.op         the operation started last
\* h.prevStart  start time of the last invocation made before the current
\*              execute call (NoNumber when there was none)
\* h.starts     start times of the invocations of the current execute call
\* h.outcomes   how each settled invocation of the current execute call ended
\* h.sleeps     the sleeps the current operation requested, in order
\* h.before     metrics at the start of the current operation
\* h.end        when the current operation returned or raised (NoNumber
\*              while it is in progress)
\* h.prevEnd    when the operation before the current one ended, if that
\*              was an execute call (NoNumber otherwise)
\* h.returned   execute calls that returned since construction or the last
\*              resetMetrics
\* h.raised     execute calls that raised since then
\* h.sync       the synchronous operation performed last since the current
\*              operation ended ("none" when there was none)
InitHistory ==
    [calls |-> 0, op |-> "none", prevStart |-> NoNumber, starts |-> << >>, outcomes |-> << >>,
     sleeps |-> << >>, before |-> ZeroMetrics, end |-> NoNumber, prevEnd |-> NoNumber,
     returned |-> 0, raised |-> 0, sync |-> "none"]

\* The caller holds no object of the limiter.
NothingHeld == [of |-> "none", shared |-> FALSE, value |-> << >>]

\* No splitting utility has been called, no request has arrived.
NoSplit == [op |-> "none"]
NoResponse == [status |-> "none"]

\* peer.pc       where the second caller or run is suspended
\* peer.wakeAt   when its pending sleep is over
\* peer.waited   the argument of that sleep
\* peer.calls    execute calls it has started
\* peer.left     chunks a second run has still to process
\* peer.starts   start times of its invocations
\* peer.extractor, peer.limiter
\*               the extractor a second run was given and the RateLimiter
\*               that run constructed
IdlePeer ==
    [pc |-> "idle", wakeAt |-> 0, waited |-> 0, calls |-> 0, left |-> 0,
     starts |-> << >>,
     extractor |-> [name |-> "", rateLimit |-> << >>],
     limiter |-> [lastCallTime |-> 0, config |-> DEFAULT_RATE_LIMIT,
                  metrics |-> ZeroMetrics]]

IdleUtilities == split = NoSplit /\ response = NoResponse /\ peer = IdlePeer

\* Variant: the last-call timestamp starts at the time of construction.
InitLimiterStamped(cfg) ==
    /\ lastCallTime = now
    /\ config = cfg
    /\ metrics = ZeroMetrics
    /\ pc = "idle"
    /\ op = "none"
    /\ attempt = 0
    /\ sleepMs = 0
    /\ operationName = << >>
    /\ lastError = << >>
    /\ result = NoResult
    /\ h = InitHistory
    /\ held = NothingHeld

\* new RateLimiter(cfg)
InitLimiter(cfg) ==
    /\ lastCallTime = 0
    /\ config = cfg
    /\ metrics = ZeroMetrics
    /\ pc = "idle"
    /\ op = "none"
    /\ attempt = 0
    /\ sleepMs = 0
    /\ operationName = << >>
    /\ lastError = << >>
    /\ result = NoResult
    /\ h = InitHistory
    /\ held = NothingHeld

\* ------------------------------------------------------------------------
\* rate-limiter.ts : RateLimiter, one sequential caller
\* ------------------------------------------------------------------------
Returned(v) == [kind |-> "returned", value |-> v]

\* Variant: waiting is subtracted from the total.
AddWaitSigned(m, ms) == [m EXCEPT !.totalWaitTimeMs = @ - ms]

\* this.metrics.totalWaitTimeMs += ms
AddWait(m, ms) == [m EXCEPT !.totalWaitTimeMs = @ + ms]

\* Variant: a success is counted but not dated.
CountExecutionUndated(m, t) == [m EXCEPT !.totalExecutions = @ + 1]

\* this.metrics.totalExecutions++; this.metrics.lastExecutionAt = Date.now()
CountExecution(m, t) == [m EXCEPT !.totalExecutions = @ + 1, !.lastExecutionAt = t]

\* this.metrics.totalRetries++
CountRetry(m) == [m EXCEPT !.totalRetries = @ + 1]

\* Variant: a failure is not counted.
CountFailureSkipped(m) == m

\* this.metrics.totalFailures++
CountFailure(m) == [m EXCEPT !.totalFailures = @ + 1]

\* Variant: the backoff of the last attempt made, not the one that would
\* have followed.
RetryAfterMsPrevious(a, delayMs) == delayMs * Pow2(a - 1)

\* RateLimitError: retryAfterMs = this.config.delayMs * Math.pow(2, attempt)
RetryAfterMs(a, delayMs) == delayMs * Pow2(a)

\* Variant: the result of the operation is dropped.
SuccessReturnDropped(value) == Returned(Undefined)

\* execute: return result
SuccessReturn(value) == Returned(value)
Raised(e) == [kind |-> "raised", error |-> e]

Success(v) == [ok |-> TRUE, value |-> v]
Failure(e) == [ok |-> FALSE, error |-> e]

\* The slot is granted at time t: waitForNextSlot sets lastCallTime and
\* returns waited; inside execute the wrapped operation is invoked next.
SlotGranted(t, waited, opv, hh) ==
    /\ lastCallTime' = t
    /\ sleepMs' = 0
    /\ IF opv = "execute"
       THEN /\ pc' = "fn"
            /\ op' = opv
            /\ result' = NoResult
            /\ h' = [hh EXCEPT !.starts = Append(@, t)]
       ELSE /\ pc' = "idle"
            /\ op' = "none"
            /\ result' = Returned(waited)
            /\ h' = [hh EXCEPT !.end = t]

\* waitForNextSlot up to its first suspension, entered at time t
SlotEnter(t, opv, hh, cfg, last) ==
    LET remaining == Remaining(t, last, cfg.delayMs)
    IN  IF remaining > 0
        THEN /\ pc' = "slotSleep"
             /\ op' = opv
             /\ sleepMs' = remaining
             /\ result' = NoResult
             /\ h' = [hh EXCEPT !.sleeps = Append(@, [kind |-> "slot", ms |-> remaining])]
             /\ lastCallTime' = last
        ELSE SlotGranted(t, Max(0, remaining), opv, hh)

\* Variant: the loop stops one attempt early.
LoopConditionStrict(a, maxRetries) == a < maxRetries

\* execute: for (...; attempt <= this.config.maxRetries; ...)
LoopCondition(a, maxRetries) == a <= maxRetries

\* execute: the head of the retry loop with attempt = a, at time t, on the
\* limiter whose config is cfg and whose lastCallTime is last
LoopHead(a, t, hh, cfg, last, lastErr) ==
    /\ attempt' = a
    /\ IF LoopCondition(a, cfg.maxRetries)
       THEN SlotEnter(t, "execute", hh, cfg, last)
       ELSE \* throw lastError || new Error(`... failed after N attempts`)
            /\ pc' = "idle"
            /\ op' = "none"
            /\ sleepMs' = 0
            /\ result' = Raised(IF lastErr # << >> THEN lastErr[1]
                                ELSE PlainError(operationName' \o
                                       <<"failed after", ToString(cfg.maxRetries),
                                         "attempts">>))
            /\ h' = [hh EXCEPT !.end = t, !.raised = @ + 1]
            /\ lastCallTime' = last

StartHistoryOf(hh, m, opv) ==
    [hh EXCEPT !.calls = @ + 1, !.op = opv,
               !.prevStart = IF hh.starts # << >> THEN hh.starts[Len(hh.starts)] ELSE @,
               !.starts = << >>, !.outcomes = << >>, !.sleeps = << >>,
               !.before = m, !.end = NoNumber,
               !.prevEnd = IF hh.op = "execute" THEN hh.end ELSE NoNumber,
               !.sync = "none"]

StartHistory(opv) == StartHistoryOf(h, metrics, opv)

\* The caller lets gap ms pass and calls execute(fn, name).
ExecuteCall(gap, name) ==
    /\ pc = "idle"
    /\ h.calls < MaxCalls
    /\ now' = now + gap
    /\ operationName' = name
    /\ lastError' = << >>
    /\ LoopHead(1, now', StartHistory("execute"), config, lastCallTime, << >>)
    /\ UNCHANGED <<config, metrics>>

\* The caller lets gap ms pass and calls waitForNextSlot().
WaitForNextSlotCall(gap) ==
    /\ pc = "idle"
    /\ h.calls < MaxCalls
    /\ now' = now + gap
    /\ SlotEnter(now', "waitForNextSlot", StartHistory("waitForNextSlot"),
                 config, lastCallTime)
    /\ UNCHANGED <<config, metrics, attempt, operationName, lastError>>

\* waitForNextSlot: sleep(remaining) resumes, jitter ms late.
SlotWake(jitter) ==
    /\ pc = "slotSleep"
    /\ now' = now + sleepMs + jitter
    /\ metrics' = AddWait(metrics, sleepMs)
    /\ SlotGranted(now', Max(0, sleepMs), op, h)
    /\ UNCHANGED <<config, attempt, operationName, lastError>>

\* execute: the wrapped operation settles after dur ms with outcome.
FnSettle(dur, outcome) ==
    /\ pc = "fn"
    /\ now' = now + dur
    /\ IF outcome.ok
       THEN /\ metrics' = CountExecution(metrics, now')
            /\ pc' = "idle"
            /\ op' = "none"
            /\ sleepMs' = 0
            /\ result' = SuccessReturn(outcome.value)
            /\ UNCHANGED lastError
       ELSE LET err == AsError(outcome.error)
                isRateLimitError == IsRateLimitError(err)
            IN  /\ lastError' = <<err>>
                /\ IF ShouldRetry(isRateLimitError, attempt, config.maxRetries)
                   THEN /\ metrics' = CountRetry(metrics)
                        /\ pc' = "backoff"
                        /\ sleepMs' = BackoffMs(attempt, config.delayMs)
                        /\ UNCHANGED <<op, result>>
                   ELSE /\ metrics' = CountFailure(metrics)
                        /\ pc' = "idle"
                        /\ op' = "none"
                        /\ sleepMs' = 0
                        /\ result' =
                             IF isRateLimitError
                             THEN Raised(RateLimitError(
                                      operationName \o <<"failed:", "Rate limit",
                                                         "exceeded after",
                                                         ToString(attempt), "attempts.">>,
                                      RetryAfterMs(attempt, config.delayMs), attempt))
                             ELSE Raised(WrapError(err, operationName))
    /\ h' = [h EXCEPT !.outcomes = Append(@, outcome),
                      !.sleeps = IF pc' = "backoff"
                                 THEN Append(@, [kind |-> "backoff", ms |-> sleepMs'])
                                 ELSE @,
                      !.end = IF pc' = "idle" THEN now' ELSE @,
                      !.returned = IF pc' = "idle" /\ outcome.ok THEN @ + 1 ELSE @,
                      !.raised = IF pc' = "idle" /\ ~outcome.ok THEN @ + 1 ELSE @]
    /\ UNCHANGED <<lastCallTime, config, attempt, operationName>>

\* execute: sleep(backoffMs) resumes, jitter ms late; continue.
BackoffWake(jitter) ==
    /\ pc = "backoff"
    /\ now' = now + sleepMs + jitter
    /\ metrics' = AddWait(metrics, sleepMs)
    /\ LoopHead(attempt + 1, now', h, config, lastCallTime, lastError)
    /\ UNCHANGED <<config, operationName, lastError>>

\* The limiter as a synchronous operation leaves it, apart from what the
\* operation itself changes.
SyncFrame(name) ==
    /\ h' = [h EXCEPT !.sync = name]
    /\ UNCHANGED <<now, lastCallTime, pc, op, attempt, sleepMs, operationName,
                   lastError, result>>

\* Variant: the last-call timestamp is reset as well.
ResetMetricsAndClock ==
    /\ pc = "idle"
    /\ metrics' = ZeroMetrics
    /\ h' = [h EXCEPT !.sync = "resetMetrics", !.returned = 0, !.raised = 0]
    /\ lastCallTime' = 0
    /\ UNCHANGED <<now, pc, op, attempt, sleepMs, operationName, lastError, result,
                   config, held>>

\* resetMetrics(), called between two operations: this.metrics is a new
\* object with the four counters at 0 and no lastExecutionAt
ResetMetrics ==
    /\ pc = "idle"
    /\ metrics' = ZeroMetrics
    /\ h' = [h EXCEPT !.sync = "resetMetrics", !.returned = 0, !.raised = 0]
    /\ UNCHANGED <<now, lastCallTime, pc, op, attempt, sleepMs, operationName,
                   lastError, result, config, held>>

\* Variant: the object itself is handed out.
SpreadShared(obj) == [shared |-> TRUE, value |-> obj]

\* { ...obj }: a new object with the fields of obj
Spread(obj) == [shared |-> FALSE, value |-> obj]

\* getConfig(), called between two operations
GetConfig ==
    /\ pc = "idle"
    /\ held' = [of |-> "config"] @@ Spread(config)
    /\ SyncFrame("getConfig")
    /\ UNCHANGED <<config, metrics>>

\* getMetrics(), called between two operations
GetMetrics ==
    /\ pc = "idle"
    /\ held' = [of |-> "metrics"] @@ Spread(metrics)
    /\ SyncFrame("getMetrics")
    /\ UNCHANGED <<config, metrics>>

\* What the caller writes into an object it holds: config.delayMs = 0, or
\* metrics.totalExecutions = 0.
Overwritten(obj) ==
    IF obj.of = "config" THEN [obj.value EXCEPT !.delayMs = 0]
                         ELSE [obj.value EXCEPT !.totalExecutions = 0]

\* The caller assigns to a field of the object it got from getConfig or
\* getMetrics; the write reaches the limiter only if the object is shared
\* with it.
CallerMutates ==
    /\ pc = "idle"
    /\ held.of # "none"
    /\ held' = [held EXCEPT !.value = Overwritten(held)]
    /\ config' = IF held.shared /\ held.of = "config" THEN Overwritten(held)
                                                       ELSE config
    /\ metrics' = IF held.shared /\ held.of = "metrics" THEN Overwritten(held)
                                                         ELSE metrics
    /\ SyncFrame("mutate")

\* ------------------------------------------------------------------------
\* extraction-pipeline.ts : extractFromPages
\* ------------------------------------------------------------------------
\* ph.execLog    how the execute call of each finished chunk ended
\* ph.genLog     the generation outcomes of each finished chunk
\* ph.aggregate  allItems as it was before deduplication
\* ph.progress   the calls of onProgress so far
IdlePipeline ==
    /\ pipePc = "idle"
    /\ chunks = << >>
    /\ extractor = [name |-> "", rateLimit |-> << >>]
    /\ i = 0
    /\ pageResults = << >>
    /\ allItems = << >>
    /\ startTime = 0
    /\ pipeResult = NoResult
    /\ ph = [execLog |-> << >>, genLog |-> << >>, aggregate |-> << >>,
             progress |-> << >>]

\* extractor.rateLimit || DEFAULT_RATE_LIMIT
LimiterConfigOf(extr) ==
    IF extr.rateLimit = << >> THEN DEFAULT_RATE_LIMIT ELSE extr.rateLimit[1]

\* Variant: the chunks are taken from the end of the list.
ChunkAtReversed(chunkList, idx) == chunkList[Len(chunkList) - idx]

\* const chunk = chunks[i]
ChunkAt(chunkList, idx) == chunkList[idx + 1]

\* What the caller's onProgress throws when it fails.
ProgressError == PlainError(<<"progress sink failed">>)

\* this.onProgress?.(...): nothing is called when no callback was given; a
\* callback that was given returns or throws.
ProgressOutcomes(sink) == IF sink = "present" THEN {FALSE, TRUE} ELSE {FALSE}

\* Variant: the callback is handed the loop index instead of i + 1.
ProgressCallZeroBased(idx, total, pageNum, threw) ==
    [current |-> idx, total |-> total,
     status |-> <<"Processing page", ToString(pageNum)>>, threw |-> threw]

\* onProgress(i + 1, chunks.length, `Processing page ${pageNum}`)
ProgressCall(idx, total, pageNum, threw) ==
    [current |-> idx + 1, total |-> total,
     status |-> <<"Processing page", ToString(pageNum)>>, threw |-> threw]

\* Variant: onProgress is called inside the try block of the chunk.
PipeLoopCatching(idx, t, results, items, cfg, last, m, hh, chunkList, start, phh) ==
    /\ i' = idx
    /\ pageResults' = results
    /\ IF idx < Len(chunkList)
       THEN \E threw \in ProgressOutcomes(onProgress) :
            LET pageNum == ChunkAt(chunkList, idx).pageNumber
                called == IF onProgress = "present"
                          THEN [phh EXCEPT !.progress =
                                   Append(@, ProgressCall(idx, Len(chunkList),
                                                          pageNum, threw))]
                          ELSE phh
            IN  /\ allItems' = items
                /\ ph' = called
                /\ IF threw
                   THEN \* the exception is caught as the chunk's failure
                        /\ pipePc' = "running"
                        /\ pipeResult' = NoResult
                        /\ result' = Raised(WrapError(ProgressError, << >>))
                        /\ lastCallTime' = last
                        /\ h' = hh
                        /\ UNCHANGED <<pc, op, attempt, sleepMs, operationName,
                                       lastError>>
                   ELSE /\ pipePc' = "running"
                        /\ pipeResult' = NoResult
                        /\ operationName' =
                               <<"Page", ToString(pageNum), "extraction">>
                        /\ lastError' = << >>
                        /\ LoopHead(1, t, StartHistoryOf(hh, m, "execute"), cfg,
                                    last, << >>)
       ELSE /\ pipePc' = "completed"
            /\ allItems' = DeduplicateItems(items)
            /\ pipeResult' = Returned(BuildResult(items, results, chunkList, t - start))
            /\ ph' = [phh EXCEPT !.aggregate = items]
            /\ lastCallTime' = last
            /\ h' = hh
            /\ UNCHANGED <<pc, op, attempt, sleepMs, operationName, lastError, result>>

\* extractFromPages: the head of the chunk loop with i = idx at time t, and
\* what follows the loop when the chunks are exhausted.  results and items
\* are pageResults and allItems so far; cfg and last are the config and the
\* lastCallTime of the run's RateLimiter, m its metrics.
PipeLoop(idx, t, results, items, cfg, last, m, hh, chunkList, start, phh) ==
    /\ i' = idx
    /\ pageResults' = results
    /\ IF idx < Len(chunkList)
       THEN \E threw \in ProgressOutcomes(onProgress) :
            LET pageNum == ChunkAt(chunkList, idx).pageNumber
                called == IF onProgress = "present"
                          THEN [phh EXCEPT !.progress =
                                   Append(@, ProgressCall(idx, Len(chunkList),
                                                          pageNum, threw))]
                          ELSE phh
            IN  /\ allItems' = items
                /\ ph' = called
                /\ IF threw
                   THEN \* the exception leaves extractFromPages
                        /\ pipePc' = "failed"
                        /\ pipeResult' = Raised(ProgressError)
                        /\ lastCallTime' = last
                        /\ h' = hh
                        /\ UNCHANGED <<pc, op, attempt, sleepMs, operationName,
                                       lastError, result>>
                   ELSE /\ pipePc' = "running"
                        /\ pipeResult' = NoResult
                        /\ operationName' =
                               <<"Page", ToString(pageNum), "extraction">>
                        /\ lastError' = << >>
                        /\ LoopHead(1, t, StartHistoryOf(hh, m, "execute"), cfg,
                                    last, << >>)
       ELSE /\ pipePc' = "completed"
            /\ allItems' = DeduplicateItems(items)
            /\ pipeResult' = Returned(BuildResult(items, results, chunkList, t - start))
            /\ ph' = [phh EXCEPT !.aggregate = items]
            /\ lastCallTime' = last
            /\ h' = hh
            /\ UNCHANGED <<pc, op, attempt, sleepMs, operationName, lastError, result>>

\* A caller calls extractFromPages(chunkList, extr).
ExtractFromPagesCall(chunkList, extr) ==
    /\ pipePc = "idle"
    /\ startTime' = now
    /\ chunks' = chunkList
    /\ extractor' = extr
    /\ config' = LimiterConfigOf(extr)      \* new RateLimiter(...)
    /\ metrics' = ZeroMetrics
    /\ PipeLoop(0, now, << >>, << >>, config', 0, ZeroMetrics, InitHistory,
                chunkList, now, ph)
    /\ UNCHANGED <<now, onProgress, held>>

\* await rateLimiter.execute(...): the loop resumes when execute has settled
ExecuteSettled == pc = "idle"

\* Variant: the loop never advances.
NextIndexStuck(idx) == idx

\* for (...; i++)
NextIndex(idx) == idx + 1

\* rateLimiter.execute has settled for chunk i: record the page result and
\* go on with the next chunk, or build the result after the last one.
PipeStep ==
    /\ pipePc = "running"
    /\ ExecuteSettled
    /\ LET pageNum == ChunkAt(chunks, i).pageNumber
           results == Append(pageResults, PageResult(result, pageNum))
           items == IF result.kind = "returned" THEN allItems \o result.value
                                                ELSE allItems
           phh == [ph EXCEPT !.execLog = Append(@, result),
                             !.genLog = Append(@, h.outcomes)]
       IN  PipeLoop(NextIndex(i), now, results, items, config, lastCallTime,
                    metrics, h, chunks, startTime, phh)
    /\ UNCHANGED <<now, config, metrics, chunks, extractor, startTime, onProgress,
                   held>>

\* ------------------------------------------------------------------------
\* A second thread of control: another caller of the same RateLimiter, or
\* another extractFromPages run
\* ------------------------------------------------------------------------
\* The RateLimiter a thread of control works on: "shared" is the one of the
\* first caller (this.lastCallTime, this.metrics, this.config of that
\* object), "own" is the one a second run constructed.
LimiterOf(target) ==
    IF target = "shared"
    THEN [lastCallTime |-> lastCallTime, config |-> config, metrics |-> metrics]
    ELSE peer.limiter

\* The peer's step leaves its thread as p and the limiter it works on as lim.
PeerWrites(target, lim, p) ==
    IF target = "shared"
    THEN /\ lastCallTime' = lim.lastCallTime
         /\ metrics' = lim.metrics
         /\ peer' = p
    ELSE /\ peer' = [p EXCEPT !.limiter = lim]
         /\ UNCHANGED <<lastCallTime, metrics>>

\* What a step of the peer does not touch.
PeerFrame ==
    UNCHANGED <<config, pc, op, attempt, sleepMs, operationName, lastError, result,
                h, pipeVars, held, split, response>>

\* waitForNextSlot: lastCallTime = Date.now(), and the invocation starts
PeerGranted(lim, p, t) ==
    [limiter |-> [lim EXCEPT !.lastCallTime = t],
     thread |-> [p EXCEPT !.pc = "fn", !.starts = Append(@, t), !.waited = 0]]

\* The peer enters execute: waitForNextSlot up to its first suspension.
PeerEnter(target, p) ==
    LET lim == LimiterOf(target)
        remaining == Remaining(now, lim.lastCallTime, lim.config.delayMs)
    IN  /\ lim.config.maxRetries >= 1
        /\ IF remaining > 0
           THEN PeerWrites(target, lim,
                           [p EXCEPT !.pc = "slotSleep", !.wakeAt = now + remaining,
                                     !.waited = remaining])
           ELSE LET granted == PeerGranted(lim, p, now)
                IN  PeerWrites(target, granted.limiter, granted.thread)
        /\ UNCHANGED now
        /\ PeerFrame

\* A second caller calls execute(fn) on the RateLimiter of the first.
PeerExecuteCall ==
    /\ peer.pc = "idle"
    /\ peer.calls < MaxCalls
    /\ PeerEnter("shared", [peer EXCEPT !.calls = @ + 1])

\* The peer's sleep(remaining) is over.
PeerSlotWake(target) ==
    /\ peer.pc = "slotSleep"
    /\ now' = Max(now, peer.wakeAt)
    /\ LET lim == LimiterOf(target)
           waited == [lim EXCEPT !.metrics = AddWait(@, peer.waited)]
           granted == PeerGranted(waited, peer, now')
       IN  PeerWrites(target, granted.limiter, granted.thread)
    /\ PeerFrame

\* The peer's operation settles at once: it returns, or fails with a
\* failure that is not throttling.
PeerFnSettle(target, ok) ==
    /\ peer.pc = "fn"
    /\ LET lim == LimiterOf(target)
           counted == [lim EXCEPT !.metrics = IF ok THEN CountExecution(@, now)
                                                   ELSE CountFailure(@)]
       IN  PeerWrites(target, counted,
                      [peer EXCEPT !.pc = "idle",
                                   !.left = IF @ > 0 THEN @ - 1 ELSE @])
    /\ UNCHANGED now
    /\ PeerFrame

\* Variant: the pipeline keeps one RateLimiter for all its runs.
RunLimiterOfPipeline == "shared"

\* extractFromPages: const rateLimiter = new RateLimiter(...), an object of
\* the call
RunLimiter == "own"

\* new RateLimiter(extractor.rateLimit || DEFAULT_RATE_LIMIT)
NewLimiter(extr) ==
    [lastCallTime |-> 0, config |-> LimiterConfigOf(extr), metrics |-> ZeroMetrics]

\* A second caller calls extractFromPages with n chunks and extr, on the
\* same pipeline.
PeerRunCall(n, extr) ==
    /\ peer.pc = "idle"
    /\ peer.calls = 0
    /\ PeerWrites(RunLimiter, NewLimiter(extr),
                  [peer EXCEPT !.calls = 1, !.left = n, !.extractor = extr])
    /\ UNCHANGED now
    /\ PeerFrame

\* The second run goes on to its next chunk: rateLimiter.execute(...)
PeerChunk ==
    /\ peer.pc = "idle"
    /\ peer.calls = 1
    /\ peer.left > 0
    /\ PeerEnter(RunLimiter, peer)

\* ------------------------------------------------------------------------
\* Specification of one RateLimiter driven by one sequential caller
\* ------------------------------------------------------------------------
Configs == [delayMs : 0..MaxDelay, maxRetries : 0..MaxRetriesCfg]

Values == {"v1", "v2"}

FnErrors ==
    { PlainError(<<"429", "Too Many Requests">>),
      PlainError(<<"Simulated LLM Failure">>),
      ThrownValue(<<"boom">>),
      SchemaValidationError(<<"schema mismatch">>) }

FnOutcomes == {Success(v) : v \in Values} \cup {Failure(e) : e \in FnErrors}

OperationNames == {<<"API call">>}

\* The limiter is constructed with the clock anywhere from 0 (below delayMs,
\* so that the first call has to wait) up to MaxDelay (at or beyond it).
Init ==
    /\ now \in 0..MaxDelay
    /\ \E cfg \in Configs : InitLimiter(cfg)
    /\ IdlePipeline
    /\ IdleUtilities
    /\ onProgress = "absent"

Next ==
    \/ \E gap \in 0..MaxGap, name \in OperationNames :
           ExecuteCall(gap, name) /\ UNCHANGED otherVars
    \/ \E gap \in 0..MaxGap : WaitForNextSlotCall(gap) /\ UNCHANGED otherVars
    \/ \E jitter \in 0..MaxJitter : SlotWake(jitter) /\ UNCHANGED otherVars
    \/ \E dur \in 0..MaxFnDur, outcome \in FnOutcomes :
           FnSettle(dur, outcome) /\ UNCHANGED otherVars
    \/ \E jitter \in 0..MaxJitter : BackoffWake(jitter) /\ UNCHANGED otherVars

Spec == Init /\ [][Next]_vars

\* ------------------------------------------------------------------------
\* Specification of one RateLimiter with its whole interface: the caller
\* also resets the metrics, reads config and metrics, and writes to what it
\* has read
\* ------------------------------------------------------------------------
AccessOutcomes ==
    { Success("v1"),
      Failure(PlainError(<<"429", "Too Many Requests">>)),
      Failure(PlainError(<<"Simulated LLM Failure">>)) }

\* The limiter spaces the calls or not, and retries once or not at all.
AccessConfigs == [delayMs : {0, MaxDelay}, maxRetries : {1, 2}]

\* The limiter is constructed when the clock is at MaxDelay.
InitAccess ==
    /\ now = MaxDelay
    /\ \E cfg \in AccessConfigs : InitLimiter(cfg)
    /\ IdlePipeline
    /\ IdleUtilities
    /\ onProgress = "absent"

NextAccess ==
    \/ \E gap \in 0..MaxGap, name \in OperationNames :
           ExecuteCall(gap, name) /\ UNCHANGED otherVars
    \/ \E gap \in 0..MaxGap : WaitForNextSlotCall(gap) /\ UNCHANGED otherVars
    \/ SlotWake(0) /\ UNCHANGED otherVars
    \/ \E outcome \in AccessOutcomes : FnSettle(0, outcome) /\ UNCHANGED otherVars
    \/ BackoffWake(0) /\ UNCHANGED otherVars
    \/ ResetMetrics /\ UNCHANGED <<pipeVars, utilVars>>
    \/ GetConfig /\ UNCHANGED <<pipeVars, utilVars>>
    \/ GetMetrics /\ UNCHANGED <<pipeVars, utilVars>>
    \/ CallerMutates /\ UNCHANGED <<pipeVars, utilVars>>

SpecAccess == InitAccess /\ [][NextAccess]_vars

\* ------------------------------------------------------------------------
\* Specification of one RateLimiter and one sequential caller, with the
\* timing of every step left open
\* ------------------------------------------------------------------------
NextTimed ==
    \/ \E gap \in 0..MaxGap, name \in OperationNames :
           ExecuteCall(gap, name) /\ UNCHANGED otherVars
    \/ \E gap \in 0..MaxGap : WaitForNextSlotCall(gap) /\ UNCHANGED otherVars
    \/ \E jitter \in 0..MaxJitter : SlotWake(jitter) /\ UNCHANGED otherVars
    \/ \E dur \in 0..MaxFnDur, outcome \in AccessOutcomes :
           FnSettle(dur, outcome) /\ UNCHANGED otherVars
    \/ \E jitter \in 0..MaxJitter : BackoffWake(jitter) /\ UNCHANGED otherVars

SpecTimed == InitAccess /\ [][NextTimed]_vars

\* ------------------------------------------------------------------------
\* Specification of one RateLimiter whose metrics are reset between
\* execute calls that take time
\* ------------------------------------------------------------------------
NextMetrics ==
    \/ \E gap \in 0..MaxGap, name \in OperationNames :
           ExecuteCall(gap, name) /\ UNCHANGED otherVars
    \/ SlotWake(0) /\ UNCHANGED otherVars
    \/ \E dur \in 0..MaxFnDur, outcome \in AccessOutcomes :
           FnSettle(dur, outcome) /\ UNCHANGED otherVars
    \/ BackoffWake(0) /\ UNCHANGED otherVars
    \/ ResetMetrics /\ UNCHANGED <<pipeVars, utilVars>>

SpecMetrics == InitAccess /\ [][NextMetrics]_vars

\* ------------------------------------------------------------------------
\* Specification of one RateLimiter whose wrapped operation fails with
\* errors of every class, code and wording
\* ------------------------------------------------------------------------
ClassifyErrors ==
    { PlainError(<<"429", "Too Many Requests">>),
      PlainError(<<"Rate Limit", "reached">>),
      PlainError(<<"RATE_LIMIT">>),
      ThrownValue(<<"too many requests">>),
      SchemaValidationError(<<"Quota exceeded", "for schema">>),
      RateLimitError(<<"Slow down">>, 0, 0),
      ExtractionError("TIMEOUT", <<"Simulated LLM Failure">>, << >>),
      PlainError(<<"Other">>) }

ClassifyOutcomes == {Success("v1")} \cup {Failure(e) : e \in ClassifyErrors}

NextClassify ==
    \/ \E gap \in 0..MaxGap, name \in OperationNames :
           ExecuteCall(gap, name) /\ UNCHANGED otherVars
    \/ SlotWake(0) /\ UNCHANGED otherVars
    \/ \E outcome \in ClassifyOutcomes : FnSettle(0, outcome) /\ UNCHANGED otherVars
    \/ BackoffWake(0) /\ UNCHANGED otherVars

SpecClassify == InitAccess /\ [][NextClassify]_vars

\* ------------------------------------------------------------------------
\* Specification of one extractFromPages run
\* ------------------------------------------------------------------------
SeqsUpTo(S, n) == UNION {[1..k -> S] : k \in 0..n}

PageChunk(content, pageNumber) == [content |-> content, pageNumber |-> pageNumber]

ChunkLists ==
    SeqsUpTo({PageChunk(<<"text">>, n) : n \in 1..MaxPageNumber}, MaxChunks)

ItemUniverse ==
    { Item("Original", TRUE, <<"Shared ID">>, TRUE, 1),
      Item("Duplicate", TRUE, <<" ", "SHARED ID", "\n">>, FALSE, 0),
      Item("Bare", FALSE, << >>, TRUE, 3) }

ItemLists == SeqsUpTo(ItemUniverse, MaxPageItems)

GenErrors ==
    { PlainError(<<"429", "Too Many Requests">>),
      PlainError(<<"Simulated LLM Failure">>) }

GenOutcomes ==
    {[stage |-> "none", items |-> its] : its \in ItemLists}
    \cup {[stage |-> "generate", error |-> e] : e \in GenErrors}

Extractors ==
    { [name |-> "test-extractor", rateLimit |-> <<[delayMs |-> 2, maxRetries |-> 2]>>],
      [name |-> "test-extractor", rateLimit |-> << >>] }

\* In a run every timer fires on time and every generation call takes 1 ms.
PipeJitter == 0
PipeFnDur == 1

\* new ExtractionPipeline(options): options.onProgress is optional
ProgressSinks == {"absent", "present"}

InitPipe ==
    /\ now = 2 * DefaultDelayMs
    /\ InitLimiter(DEFAULT_RATE_LIMIT)
    /\ IdlePipeline
    /\ IdleUtilities
    /\ onProgress \in ProgressSinks

NextPipe ==
    \/ \E chunkList \in ChunkLists, extr \in Extractors :
           ExtractFromPagesCall(chunkList, extr) /\ UNCHANGED utilVars
    \/ SlotWake(PipeJitter) /\ UNCHANGED otherVars
    \/ \E gen \in GenOutcomes :
           FnSettle(PipeFnDur, ExtractSingle(gen, extractor)) /\ UNCHANGED otherVars
    \/ BackoffWake(PipeJitter) /\ UNCHANGED otherVars
    \/ PipeStep /\ UNCHANGED utilVars

SpecPipe == InitPipe /\ [][NextPipe]_vars

\* ------------------------------------------------------------------------
\* Specification of one extractFromPages run that goes on once started
\* ------------------------------------------------------------------------
\* What a generation call returns matters little to whether the run ends:
\* no item or one item, or one of the failures.
RunGenOutcomes ==
    {[stage |-> "none", items |-> its] :
        its \in {<< >>, <<Item("Bare", FALSE, << >>, TRUE, 3)>>}}
    \cup {[stage |-> "generate", error |-> e] : e \in GenErrors}

\* Every timer fires, every generation call returns or fails, and the loop
\* resumes when execute has settled.
RunStep ==
    \/ SlotWake(PipeJitter) /\ UNCHANGED otherVars
    \/ \E gen \in RunGenOutcomes :
           FnSettle(PipeFnDur, ExtractSingle(gen, extractor)) /\ UNCHANGED otherVars
    \/ BackoffWake(PipeJitter) /\ UNCHANGED otherVars
    \/ PipeStep /\ UNCHANGED utilVars

NextRun ==
    \/ \E chunkList \in ChunkLists, extr \in Extractors :
           ExtractFromPagesCall(chunkList, extr) /\ UNCHANGED utilVars
    \/ RunStep

SpecRun == InitPipe /\ [][NextRun]_vars

SpecPipeFair == InitPipe /\ [][NextRun]_vars /\ WF_vars(RunStep)

\* ------------------------------------------------------------------------
\* Specification of one extractFromPages run whose generation calls fail in
\* every way extractSingle can fail
\* ------------------------------------------------------------------------
\* What generateObject throws when the output does not validate against the
\* schema, and when it cannot be parsed: errors of the generation library,
\* which are Errors but not ExtractionErrors.
SchemaMismatch == PlainError(<<"No object generated: response did not match schema.">>)
UnparseableOutput == PlainError(<<"No object generated: could not parse the response.">>)

\* What extractor.buildPrompt throws when it fails.
PromptFailure == PlainError(<<"prompt template failed">>)

FailGenOutcomes ==
    {[stage |-> "none", items |-> its] :
        its \in {<< >>, <<Item("Bare", FALSE, << >>, TRUE, 3)>>}}
    \cup {[stage |-> "generate", error |-> e] :
             e \in GenErrors \cup {SchemaMismatch, UnparseableOutput}}
    \cup {[stage |-> "prompt", error |-> PromptFailure]}

\* Extractors are named by their authors; a name may hold any text.
ExtractorNames == {"test-extractor", "quota-report"}

\* The extractor of the tests with its own limits and with the default
\* ones, and an extractor whose name holds one of the throttling patterns.
FailExtractors ==
    { [name |-> n, rateLimit |-> <<[delayMs |-> 2, maxRetries |-> 2]>>] :
         n \in ExtractorNames }
    \cup { [name |-> "test-extractor", rateLimit |-> << >>] }

\* The chunk lists the splitting utilities give: pageNumber k for chunk k.
NumberedChunkLists ==
    {[k \in 1..n |-> PageChunk(<<"text">>, k)] : n \in 0..MaxChunks}

NextFail ==
    \/ \E chunkList \in NumberedChunkLists, extr \in FailExtractors :
           ExtractFromPagesCall(chunkList, extr) /\ UNCHANGED utilVars
    \/ SlotWake(PipeJitter) /\ UNCHANGED otherVars
    \/ \E gen \in FailGenOutcomes :
           FnSettle(PipeFnDur, ExtractSingle(gen, extractor)) /\ UNCHANGED otherVars
    \/ BackoffWake(PipeJitter) /\ UNCHANGED otherVars
    \/ PipeStep /\ UNCHANGED utilVars

SpecFail == InitPipe /\ [][NextFail]_vars

\* ------------------------------------------------------------------------
\* extraction-pipeline.ts : splitIntoPages and chunkBySize
\* ------------------------------------------------------------------------
\* Here a text is the sequence of its characters, and positions are counted
\* from 0 as in the code.
Min(a, b) == IF a <= b THEN a ELSE b

\* pattern stands in s at position at
MatchesAt(s, pattern, at) ==
    /\ at + Len(pattern) <= Len(s)
    /\ \A k \in 1..Len(pattern) : s[at + k] = pattern[k]

\* String.prototype.indexOf(pattern): the first position, -1 when none
IndexOf(s, pattern) ==
    LET found == {at \in 0..Len(s) : MatchesAt(s, pattern, at)}
    IN  IF found = {} THEN -1
        ELSE CHOOSE at \in found : \A other \in found : at <= other

\* String.prototype.lastIndexOf(pattern, position): the last position that
\* is at most position, -1 when none
LastIndexOf(s, pattern, position) ==
    LET found == {at \in 0..Len(s) : at <= position /\ MatchesAt(s, pattern, at)}
    IN  IF found = {} THEN -1
        ELSE CHOOSE at \in found : \A other \in found : other <= at

\* String.prototype.slice(start, end), for 0 <= start
Slice(s, start, end) == SubSeq(s, start + 1, Min(end, Len(s)))

\* String.prototype.split(delimiter): the pieces between the occurrences
\* found one after the other from the left; with the empty delimiter, the
\* characters of the text
RECURSIVE StringSplit(_, _)
StringSplit(text, delimiter) ==
    IF delimiter = << >>
    THEN [k \in 1..Len(text) |-> <<text[k]>>]
    ELSE LET at == IndexOf(text, delimiter)
         IN  IF at = -1 THEN <<text>>
             ELSE <<Slice(text, 0, at)>>
                  \o StringSplit(Slice(text, at + Len(delimiter), Len(text)), delimiter)

\* Variant: the pages are numbered from 0.
SplitIntoPagesZeroBased(text, delimiter) ==
    LET pages == StringSplit(text, delimiter)
    IN  [index \in 1..Len(pages) |-> PageChunk(Trim(pages[index]), index - 1)]

\* ExtractionPipeline.splitIntoPages: index below is the code's index + 1
SplitIntoPages(text, delimiter) ==
    LET pages == StringSplit(text, delimiter)
    IN  [index \in 1..Len(pages) |-> PageChunk(Trim(pages[index]), index)]

ParagraphBreak == <<"\n", "\n">>
SentenceBreak == <<".", " ">>

\* Variant: a sentence end is preferred to a paragraph break.
SplitIndexSentenceFirst(remaining, maxChunkSize) ==
    IF Len(remaining) > maxChunkSize
    THEN LET sentenceBreak == LastIndexOf(remaining, SentenceBreak, maxChunkSize)
         IN  IF 2 * sentenceBreak > maxChunkSize
             THEN sentenceBreak + 1
             ELSE LET paragraphBreak == LastIndexOf(remaining, ParagraphBreak, maxChunkSize)
                  IN  IF 2 * paragraphBreak > maxChunkSize
                      THEN paragraphBreak
                      ELSE maxChunkSize
    ELSE Len(remaining)

\* chunkBySize: splitIndex for what remains of the text
SplitIndex(remaining, maxChunkSize) ==
    IF Len(remaining) > maxChunkSize
    THEN LET paragraphBreak == LastIndexOf(remaining, ParagraphBreak, maxChunkSize)
         IN  IF 2 * paragraphBreak > maxChunkSize      \* > maxChunkSize * 0.5
             THEN paragraphBreak
             ELSE LET sentenceBreak == LastIndexOf(remaining, SentenceBreak, maxChunkSize)
                  IN  IF 2 * sentenceBreak > maxChunkSize
                      THEN sentenceBreak + 1
                      ELSE maxChunkSize
    ELSE Len(remaining)

\* Variant: the character at the split is skipped.
RestAfterSkipping(remaining, splitIndex) ==
    Trim(Slice(remaining, splitIndex + 1, Len(remaining)))

\* Variant: what remains is trimmed but not cut.
RestAfterUncut(remaining, splitIndex) == Trim(remaining)

\* chunkBySize: remaining = remaining.slice(splitIndex).trim()
RestAfter(remaining, splitIndex) == Trim(Slice(remaining, splitIndex, Len(remaining)))

\* chunkBySize: the while loop, with the chunks pushed so far
RECURSIVE ChunkLoop(_, _, _, _)
ChunkLoop(remaining, pageNumber, chunkList, maxChunkSize) ==
    IF Len(remaining) > 0
    THEN LET splitIndex == SplitIndex(remaining, maxChunkSize)
         IN  ChunkLoop(RestAfter(remaining, splitIndex), pageNumber + 1,
                       Append(chunkList,
                              PageChunk(Trim(Slice(remaining, 0, splitIndex)), pageNumber)),
                       maxChunkSize)
    ELSE chunkList

\* ExtractionPipeline.chunkBySize, for maxChunkSize >= 1
ChunkBySize(text, maxChunkSize) == ChunkLoop(text, 1, << >>, maxChunkSize)

\* A caller calls ExtractionPipeline.splitIntoPages(text, delimiter).
SplitIntoPagesCall(text, delimiter) ==
    /\ split' = [op |-> "splitIntoPages", text |-> text, delimiter |-> delimiter,
                 pages |-> SplitIntoPages(text, delimiter)]
    /\ UNCHANGED <<rlVars, pipeVars, held, response, peer>>

\* A caller calls ExtractionPipeline.chunkBySize(text, maxChunkSize);
\* splitIndex is where the first iteration cuts the text.
ChunkBySizeCall(text, maxChunkSize) ==
    /\ split' = [op |-> "chunkBySize", text |-> text, maxChunkSize |-> maxChunkSize,
                 splitIndex |-> SplitIndex(text, maxChunkSize),
                 pages |-> ChunkBySize(text, maxChunkSize)]
    /\ UNCHANGED <<rlVars, pipeVars, held, response, peer>>

\* chunkBySize taken one iteration at a time.  A caller has called
\* ExtractionPipeline.chunkBySize(text, maxChunkSize): chunks = [],
\* remaining = text, pageNumber = 1.
ChunkBySizeEntered(text, maxChunkSize) ==
    [op |-> "chunkBySizeLoop", text |-> text, maxChunkSize |-> maxChunkSize,
     remaining |-> text, pageNumber |-> 1, pages |-> << >>, returned |-> FALSE]

InChunkLoop == split.op = "chunkBySizeLoop" /\ ~split.returned

\* while (remaining.length > 0) { ... }: one iteration
ChunkIteration ==
    /\ InChunkLoop
    /\ Len(split.remaining) > 0
    /\ LET splitIndex == SplitIndex(split.remaining, split.maxChunkSize)
       IN  split' = [split EXCEPT
                       !.pages = Append(@, PageChunk(Trim(Slice(split.remaining, 0,
                                                                splitIndex)),
                                                     split.pageNumber)),
                       !.remaining = RestAfter(split.remaining, splitIndex),
                       !.pageNumber = @ + 1]
    /\ UNCHANGED <<rlVars, pipeVars, held, response, peer>>

\* return chunks, when the loop condition fails
ChunkReturn ==
    /\ InChunkLoop
    /\ ~(Len(split.remaining) > 0)
    /\ split' = [split EXCEPT !.returned = TRUE]
    /\ UNCHANGED <<rlVars, pipeVars, held, response, peer>>

\* ------------------------------------------------------------------------
\* Specification of the splitting utilities
\* ------------------------------------------------------------------------
Whitespace == {" ", "\n"}

\* Texts of pages: a letter, the characters of the delimiters, whitespace.
PageTexts == SeqsUpTo({"a", "-"} \cup Whitespace, MaxTextLen)

\* A delimiter that can overlap itself as the default "\n---PAGE---\n" can,
\* one that cannot, and the empty one.
PageDelimiters == { <<"\n", "-", "\n">>, <<"-">>, << >> }

\* Texts of sentences and paragraphs.
ProseTexts == SeqsUpTo({"a", "."} \cup Whitespace, MaxTextLen)

\* Nothing else is going on.
InitSplit ==
    /\ now = 0
    /\ InitLimiter(DEFAULT_RATE_LIMIT)
    /\ IdlePipeline
    /\ IdleUtilities
    /\ onProgress = "absent"

\* One call of one utility is looked at.
NextSplit ==
    \/ /\ split = NoSplit
       /\ \E text \in PageTexts, delimiter \in PageDelimiters :
              SplitIntoPagesCall(text, delimiter)
    \/ /\ split = NoSplit
       /\ \E text \in ProseTexts, maxChunkSize \in 1..MaxChunkSize :
              ChunkBySizeCall(text, maxChunkSize)

SpecSplit == InitSplit /\ [][NextSplit]_vars

\* ------------------------------------------------------------------------
\* Specification of one chunkBySize call, iteration by iteration
\* ------------------------------------------------------------------------
\* Texts of sentences and paragraphs that the loop is followed on.
LoopTexts == SeqsUpTo({"a", "."} \cup Whitespace, MaxLoopTextLen)

\* Once called, chunkBySize runs on: nothing suspends it.
ChunkRun == ChunkIteration \/ ChunkReturn

\* chunkBySize has been called, and nothing else is going on.
InitChunking ==
    /\ now = 0
    /\ InitLimiter(DEFAULT_RATE_LIMIT)
    /\ IdlePipeline
    /\ \E text \in LoopTexts, maxChunkSize \in 1..MaxChunkSize :
           split = ChunkBySizeEntered(text, maxChunkSize)
    /\ response = NoResponse
    /\ peer = IdlePeer
    /\ onProgress = "absent"

NextChunking ==
    \/ ChunkIteration
    \/ ChunkReturn

SpecChunking == InitChunking /\ [][NextChunking]_vars

SpecChunkingFair == SpecChunking /\ WF_vars(ChunkRun)

\* ------------------------------------------------------------------------
\* app/api/extract/[type]/route.ts : POST, with lib/extractors/index.ts
\* ------------------------------------------------------------------------
\* The keys of the EXTRACTORS object literal.
RegisteredExtractors == {"invoice", "recipe", "job-posting"}

\* Keys that every object literal inherits from Object.prototype, with the
\* name of the function found under each.
InheritedKeys == {"constructor", "toString"}
InheritedName(key) == IF key = "constructor" THEN "Object" ELSE key

\* getExtractor(name): EXTRACTORS[name], << >> for undefined.  A registered
\* extractor has no rateLimit of its own; an inherited function has a name
\* but neither rateLimit nor buildPrompt.
GetExtractor(name) ==
    IF name \in RegisteredExtractors
    THEN <<[name |-> name, rateLimit |-> << >>, buildPrompt |-> TRUE]>>
    ELSE IF name \in InheritedKeys
    THEN <<[name |-> InheritedName(name), rateLimit |-> << >>, buildPrompt |-> FALSE]>>
    ELSE << >>

\* An absent property of the request body.
Absent == [present |-> FALSE]
Given(v) == [present |-> TRUE, value |-> v]

\* z.object({content: z.string(), pageNumber: z.number()}) on one element
IsPageObject(el) == DOMAIN el = {"content", "pageNumber"}

\* RequestSchema.safeParse(body).success: text is a string of at least one
\* character; pages, when given, is an array of page objects
SafeParse(body) ==
    /\ body.text.present
    /\ Len(body.text.value) >= 1
    /\ body.pages.present =>
          /\ body.pages.value.isArray
          /\ \A k \in 1..Len(body.pages.value.elements) :
                IsPageObject(body.pages.value.elements[k])

DefaultMaxChunkSize == 4000

\* POST: the chunks to process, for a body that passed safeParse
ChunksOfBody(body) ==
    IF body.pages.present /\ Len(body.pages.value.elements) > 0
    THEN body.pages.value.elements
    ELSE IF body.options.present /\ body.options.value.autoChunk
    THEN ChunkBySize(body.text.value,
                     IF body.options.value.maxChunkSize # 0
                     THEN body.options.value.maxChunkSize
                     ELSE DefaultMaxChunkSize)
    ELSE <<PageChunk(body.text.value, 1)>>

\* NextResponse.json(..., {status})
Reply(req, status) == [request |-> req, sent |-> TRUE, status |-> status]

\* The handler waits for extractFromPages.
Extracting(req) == [request |-> req, sent |-> FALSE, status |-> 0]

\* POST up to its first suspension inside extractFromPages.  req.json tells
\* whether request.json() gives a body, hasKey whether GEMINI_API_KEY is set.
Post(req, hasKey) ==
    /\ response = NoResponse
    /\ pipePc = "idle"
    /\ LET found == GetExtractor(req.type)
       IN  IF found = << >>
           THEN /\ response' = Reply(req, 400)
                /\ UNCHANGED <<rlVars, pipeVars, held, split, peer>>
           ELSE IF ~req.json
           THEN /\ response' = Reply(req, 500)
                /\ UNCHANGED <<rlVars, pipeVars, held, split, peer>>
           ELSE IF ~SafeParse(req.body)
           THEN /\ response' = Reply(req, 400)
                /\ UNCHANGED <<rlVars, pipeVars, held, split, peer>>
           ELSE IF ~hasKey
           THEN /\ response' = Reply(req, 500)
                /\ UNCHANGED <<rlVars, pipeVars, held, split, peer>>
           ELSE /\ response' = Extracting(req)
                /\ ExtractFromPagesCall(ChunksOfBody(req.body), found[1])
                /\ UNCHANGED <<split, peer>>

\* POST resumes when extractFromPages has settled: the result goes out with
\* status 200, an exception is caught and reported with status 500.
PostSettle ==
    /\ response # NoResponse
    /\ ~response.sent
    /\ pipePc \in {"completed", "failed"}
    /\ response' = Reply(response.request, IF pipePc = "completed" THEN 200 ELSE 500)
    /\ UNCHANGED <<rlVars, pipeVars, held, split, peer>>

\* What buildPrompt does: a value without a buildPrompt function makes
\* extractSingle fail at the call.
NotAFunction == PlainError(<<"extractor.buildPrompt is not a function">>)

GenOutcomesOf(extr) ==
    IF extr.buildPrompt THEN RunGenOutcomes
    ELSE {[stage |-> "prompt", error |-> NotAFunction]}

\* ------------------------------------------------------------------------
\* Specification of one request to the route
\* ------------------------------------------------------------------------
RouteTypes == {"invoice", "no-such-extractor", "constructor"}

RouteTexts == {Absent, Given(<< >>), Given(<<"a", ".", " ", "a">>)}

\* No pages, an empty array, one and two pages, an array whose second
\* element has no pageNumber, and a value that is not an array.
RoutePages ==
    { Absent,
      Given([isArray |-> TRUE, elements |-> << >>]),
      Given([isArray |-> TRUE, elements |-> <<PageChunk(<<"text">>, 1)>>]),
      Given([isArray |-> TRUE,
             elements |-> <<PageChunk(<<"text">>, 1), PageChunk(<<"text">>, 2)>>]),
      Given([isArray |-> TRUE,
             elements |-> <<PageChunk(<<"text">>, 1), [content |-> <<"text">>]>>]),
      Given([isArray |-> FALSE, elements |-> << >>]) }

RouteOptions ==
    { Absent,
      Given([autoChunk |-> FALSE, maxChunkSize |-> DefaultMaxChunkSize]),
      Given([autoChunk |-> TRUE, maxChunkSize |-> 2]) }

RouteBodies == [text : RouteTexts, pages : RoutePages, options : RouteOptions]

Requests ==
    [type : RouteTypes, json : {TRUE}, body : RouteBodies]
    \cup [type : RouteTypes, json : {FALSE},
          body : {[text |-> Absent, pages |-> Absent, options |-> Absent]}]

\* createPipeline() passes no options: no progress callback.
InitRoute ==
    /\ now = 2 * DefaultDelayMs
    /\ InitLimiter(DEFAULT_RATE_LIMIT)
    /\ IdlePipeline
    /\ IdleUtilities
    /\ onProgress = "absent"

NextRoute ==
    \/ \E req \in Requests, hasKey \in BOOLEAN : Post(req, hasKey)
    \/ SlotWake(PipeJitter) /\ UNCHANGED otherVars
    \/ /\ pc = "fn"
       /\ \E gen \in GenOutcomesOf(extractor) :
             FnSettle(PipeFnDur, ExtractSingle(gen, extractor)) /\ UNCHANGED otherVars
    \/ BackoffWake(PipeJitter) /\ UNCHANGED otherVars
    \/ PipeStep /\ UNCHANGED utilVars
    \/ PostSettle

SpecRoute == InitRoute /\ [][NextRoute]_vars

\* ------------------------------------------------------------------------
\* Specification of wrapError, called by a caller and along the way of a
\* failure through extractSingle, execute and extractFromPages
\* ------------------------------------------------------------------------
\* A caller calls wrapError(e, context).
WrapErrorCall(e, context) ==
    /\ split' = [op |-> "wrapError", error |-> e, context |-> context,
                 returned |-> WrapError(e, context), rewrapped |-> << >>]
    /\ UNCHANGED <<rlVars, pipeVars, held, response, peer>>

\* The caller hands what wrapError returned to wrapError again.
WrapAgainCall(context) ==
    /\ split' = [split EXCEPT !.rewrapped =
                     <<[context |-> context,
                        returned |-> WrapError(split.returned, context)]>>]
    /\ UNCHANGED <<rlVars, pipeVars, held, response, peer>>

\* Values of every class: an Error, a thrown string, and the typed failures.
WrapInputs ==
    { PlainError(<<"Network timeout">>),
      ThrownValue(<<"string error">>),
      ExtractionError("TIMEOUT", <<"Timed out">>, << >>),
      RateLimitError(<<"Slow down">>, 4, 2),
      SchemaValidationError(<<"schema mismatch">>) }

WrapContexts == { << >>, <<"Failed to call Gemini API">> }

\* What generateObject throws: errors of the generation library, a thrown
\* string, and typed failures whose message does or does not read as
\* throttling.
WrapGenErrors ==
    GenErrors
    \cup { ThrownValue(<<"boom">>),
           ExtractionError("TIMEOUT", <<"Simulated LLM Failure">>, << >>),
           ExtractionError("NETWORK_ERROR", <<"429", "Too Many Requests">>, << >>),
           SchemaValidationError(<<"Quota exceeded", "for schema">>) }

WrapGenOutcomes ==
    {[stage |-> "none", items |-> << >>]}
    \cup {[stage |-> "generate", error |-> e] : e \in WrapGenErrors}

WrapExtractor ==
    [name |-> "test-extractor", rateLimit |-> <<[delayMs |-> 2, maxRetries |-> 2]>>]

\* The outcome of extractSingle, together with what generateObject did.
TracedExtractSingle(gen, extr) == ExtractSingle(gen, extr) @@ [raw |-> gen]

\* Either wrapError is called directly, or one run is made.
NextWrap ==
    \/ /\ split = NoSplit
       /\ pipePc = "idle"
       /\ \E e \in WrapInputs, context \in WrapContexts : WrapErrorCall(e, context)
    \/ /\ split # NoSplit
       /\ split.rewrapped = << >>
       /\ \E context \in WrapContexts : WrapAgainCall(context)
    \/ /\ split = NoSplit
       /\ \E chunkList \in NumberedChunkLists :
             ExtractFromPagesCall(chunkList, WrapExtractor) /\ UNCHANGED utilVars
    \/ SlotWake(PipeJitter) /\ UNCHANGED otherVars
    \/ /\ pc = "fn"
       /\ \E gen \in WrapGenOutcomes :
             FnSettle(PipeFnDur, TracedExtractSingle(gen, extractor))
             /\ UNCHANGED otherVars
    \/ BackoffWake(PipeJitter) /\ UNCHANGED otherVars
    \/ PipeStep /\ UNCHANGED utilVars

SpecWrap == InitSplit /\ [][NextWrap]_vars

\* ------------------------------------------------------------------------
\* Specification of one RateLimiter with two callers at a time
\* ------------------------------------------------------------------------
\* The limiter spaces the calls; each caller makes execute calls one after
\* the other, every timer fires on time when its caller is the next to run.
SharedConfigs == [delayMs : {MaxDelay}, maxRetries : {1, 2}]

InitShared ==
    /\ now = MaxDelay
    /\ \E cfg \in SharedConfigs : InitLimiter(cfg)
    /\ IdlePipeline
    /\ IdleUtilities
    /\ onProgress = "absent"

NextShared ==
    \/ \E gap \in 0..MaxGap, name \in OperationNames :
           ExecuteCall(gap, name) /\ UNCHANGED otherVars
    \/ SlotWake(0) /\ UNCHANGED otherVars
    \/ \E outcome \in AccessOutcomes : FnSettle(0, outcome) /\ UNCHANGED otherVars
    \/ BackoffWake(0) /\ UNCHANGED otherVars
    \/ PeerExecuteCall
    \/ PeerSlotWake("shared")
    \/ \E ok \in BOOLEAN : PeerFnSettle("shared", ok)

SpecShared == InitShared /\ [][NextShared]_vars

\* ------------------------------------------------------------------------
\* Specification of two extractFromPages runs at a time on one pipeline
\* ------------------------------------------------------------------------
InitRuns ==
    /\ now = 2 * DefaultDelayMs
    /\ InitLimiter(DEFAULT_RATE_LIMIT)
    /\ IdlePipeline
    /\ IdleUtilities
    /\ onProgress = "absent"

\* What a generation call of the first run does: it returns no item, or
\* it fails with a failure that is not throttling, as those of the second
\* run do.
RunsGenOutcomes ==
    { [stage |-> "none", items |-> << >>],
      [stage |-> "generate", error |-> PlainError(<<"Simulated LLM Failure">>)] }

NextRuns ==
    \/ \E chunkList \in NumberedChunkLists, extr \in Extractors :
           ExtractFromPagesCall(chunkList, extr) /\ UNCHANGED utilVars
    \/ SlotWake(PipeJitter) /\ UNCHANGED otherVars
    \/ /\ pc = "fn"
       /\ \E gen \in RunsGenOutcomes :
             FnSettle(PipeFnDur, ExtractSingle(gen, extractor)) /\ UNCHANGED otherVars
    \/ PipeStep /\ UNCHANGED utilVars
    \/ \E n \in 1..MaxChunks, extr \in Extractors : PeerRunCall(n, extr)
    \/ PeerChunk
    \/ PeerSlotWake(RunLimiter)
    \/ \E ok \in BOOLEAN : PeerFnSettle(RunLimiter, ok)

SpecRuns == InitRuns /\ [][NextRuns]_vars

\* ------------------------------------------------------------------------
\* Properties of the RateLimiter (Spec)
\* ------------------------------------------------------------------------
Last(sq) == sq[Len(sq)]

\* The invocation failed with a throttling error.
ThrottledOutcome(o) == ~o.ok /\ IsRateLimitError(AsError(o.error))

\* The invocation failed with an error that is not a throttling error.
OtherFailure(o) == ~o.ok /\ ~IsRateLimitError(AsError(o.error))

AllThrottled(os) == \A k \in 1..Len(os) : ThrottledOutcome(os[k])

BackoffCount(sl) == Cardinality({k \in 1..Len(sl) : sl[k].kind = "backoff"})

\* An execute call is the latest operation and has settled n >= 1 invocations.
InExecute == h.op = "execute" /\ h.outcomes # << >>

\* C1: with one sequential caller, any two consecutive invocations of the
\* wrapped operation, within one execute call or across two calls, start at
\* least delayMs apart.
C1_MinSpacing ==
    /\ \A k \in 1..(Len(h.starts) - 1) : h.starts[k + 1] - h.starts[k] >= config.delayMs
    /\ (h.starts # << >> /\ h.prevStart # NoNumber)
          => h.starts[1] - h.prevStart >= config.delayMs

\* A second execute call that waited for its slot and retried once.
C1_Witness ==
    /\ h.prevStart # NoNumber
    /\ Len(h.starts) >= 2
    /\ config.delayMs > 0
    /\ \E k \in 1..Len(h.sleeps) : h.sleeps[k].kind = "slot"

\* C3: throttled on every attempt, execute invokes the operation exactly
\* maxRetries times and raises a RateLimitError with code RATE_LIMIT;
\* throttled on attempts 1..k-1 and successful on attempt k <= maxRetries, it
\* invokes the operation exactly k times and returns the success value.
C3_ThrottleRetryCount ==
    InExecute =>
        LET n == Len(h.outcomes)
        IN  /\ (AllThrottled(h.outcomes) /\ n < config.maxRetries)
                  => (pc \in {"backoff", "slotSleep", "fn"} /\ result.kind = "none")
            /\ (AllThrottled(h.outcomes) /\ n >= config.maxRetries)
                  => /\ n = config.maxRetries
                     /\ Len(h.starts) = config.maxRetries
                     /\ pc = "idle"
                     /\ result.kind = "raised"
                     /\ result.error.cls = "RateLimitError"
                     /\ result.error.code = "RATE_LIMIT"
            /\ (h.outcomes[n].ok /\ AllThrottled(SubSeq(h.outcomes, 1, n - 1)))
                  => /\ n <= config.maxRetries
                     /\ Len(h.starts) = n
                     /\ pc = "idle"
                     /\ result = Returned(h.outcomes[n].value)

\* Three throttled attempts out of three end in a RateLimitError.
C3_Witness ==
    /\ InExecute
    /\ pc = "idle"
    /\ config.maxRetries = 3
    /\ Len(h.outcomes) = 3
    /\ AllThrottled(h.outcomes)
    /\ result.kind = "raised"

\* C4: a throttling failure at attempt k < maxRetries makes execute sleep
\* 2^k * delayMs before attempt k+1, adds one to totalRetries, and the
\* backoff is added to totalWaitTimeMs when the sleep is over.
C4_BackoffAmount ==
    [][ /\ ( /\ pc = "fn"
             /\ Len(h'.outcomes) = Len(h.outcomes) + 1
             /\ ThrottledOutcome(Last(h'.outcomes))
             /\ attempt < config.maxRetries )
          => /\ pc' = "backoff"
             /\ sleepMs' = (2 ^ attempt) * config.delayMs
             /\ metrics'.totalRetries = metrics.totalRetries + 1
             /\ metrics'.totalWaitTimeMs = metrics.totalWaitTimeMs
        /\ (pc = "backoff" /\ pc' # "backoff")
          => /\ attempt' = attempt + 1
             /\ pc' \in {"slotSleep", "fn"}
             /\ now' >= now + (2 ^ attempt) * config.delayMs
             /\ metrics'.totalWaitTimeMs =
                   metrics.totalWaitTimeMs + (2 ^ attempt) * config.delayMs
             /\ metrics'.totalRetries = metrics.totalRetries
      ]_vars

\* The third attempt runs after backoffs of 2 * 2 ms and 4 * 2 ms.
C4_Witness ==
    /\ InExecute
    /\ pc = "fn"
    /\ attempt = 3
    /\ config.delayMs = 2
    /\ h.sleeps = <<[kind |-> "backoff", ms |-> 4], [kind |-> "backoff", ms |-> 8]>>
    /\ metrics.totalRetries = h.before.totalRetries + 2
    /\ metrics.totalWaitTimeMs = h.before.totalWaitTimeMs + 12

\* C5: a failure that is not a throttling error ends execute at once: it
\* raises, the operation is not invoked again and no backoff sleep follows;
\* on attempt 1 the operation has run exactly once and totalRetries is as
\* it was before the call, whatever maxRetries >= 1 is.
C5_NoRetryOnOtherFailure ==
    (InExecute /\ OtherFailure(Last(h.outcomes))) =>
        LET n == Len(h.outcomes)
        IN  /\ pc = "idle"
            /\ result.kind = "raised"
            /\ Len(h.starts) = n
            /\ BackoffCount(h.sleeps) = n - 1
            /\ sleepMs = 0
            /\ metrics.totalRetries = h.before.totalRetries + (n - 1)
            /\ (n = 1 => (Len(h.starts) = 1 /\
                          metrics.totalRetries = h.before.totalRetries))

\* A plain failure on attempt 1 of 3.
C5_Witness ==
    /\ InExecute
    /\ config.maxRetries = 3
    /\ Len(h.outcomes) = 1
    /\ OtherFailure(h.outcomes[1])
    /\ result.kind = "raised"

\* C6: when an attempt succeeds execute returns that attempt's value and
\* makes no further attempt; a success on attempt 1 means one invocation.
C6_SuccessReturnsValue ==
    (InExecute /\ Last(h.outcomes).ok) =>
        /\ pc = "idle"
        /\ result.kind = "returned"
        /\ result.value = Last(h.outcomes).value
        /\ Len(h.starts) = Len(h.outcomes)
        /\ metrics.totalRetries = h.before.totalRetries + (Len(h.outcomes) - 1)

\* The first attempt returns "v2".
C6_Witness ==
    /\ InExecute
    /\ Len(h.starts) = 1
    /\ h.outcomes = <<Success("v2")>>
    /\ result = Returned("v2")

\* C14: with maxRetries >= 1, totalExecutions is the number of execute
\* calls that returned since construction or the last reset and
\* totalFailures the number that raised; when none raised it is 0.
C14_CountsMatchCalls ==
    config.maxRetries >= 1 =>
        /\ metrics.totalExecutions = h.returned
        /\ metrics.totalFailures = h.raised
        /\ (h.raised = 0 /\ h.returned = h.calls) =>
              (metrics.totalExecutions = h.calls /\ metrics.totalFailures = 0)

\* Two execute calls have returned since construction, nothing was reset.
C14_Witness ==
    /\ config.maxRetries >= 1
    /\ pc = "idle"
    /\ h.calls = 2
    /\ h.returned = 2
    /\ metrics.totalExecutions = 2
    /\ metrics.totalFailures = 0

\* C15: resetMetrics sets the four counters to 0, clears lastExecutionAt
\* and changes nothing else of the limiter; the invocation after a reset is
\* still at least delayMs after the invocation before it.
C15_ResetFrame ==
    /\ [][ h'.sync = "resetMetrics" =>
              /\ metrics'.totalExecutions = 0
              /\ metrics'.totalWaitTimeMs = 0
              /\ metrics'.totalRetries = 0
              /\ metrics'.totalFailures = 0
              /\ metrics'.lastExecutionAt = NoNumber
              /\ config' = config
              /\ lastCallTime' = lastCallTime
              /\ UNCHANGED <<now, pc, op, attempt, sleepMs, operationName,
                             lastError, result, held>>
         ]_vars
    /\ []((h.starts # << >> /\ h.prevStart # NoNumber)
             => h.starts[1] - h.prevStart >= config.delayMs)

\* An execute call ended, the metrics were reset, and the next execute call
\* waited for its slot before it invoked the operation.
C15_Witness ==
    /\ config.maxRetries >= 1
    /\ config.delayMs > 0
    /\ h.prevEnd # NoNumber
    /\ h.prevStart # NoNumber
    /\ h.before = ZeroMetrics
    /\ Len(h.starts) = 1
    /\ h.sleeps # << >>
    /\ h.sleeps[1].kind = "slot"

\* C16: no step of waitForNextSlot, execute, getConfig or getMetrics makes
\* totalExecutions, totalWaitTimeMs, totalRetries or totalFailures smaller.
C16_CountersMonotone ==
    [][ h'.sync # "resetMetrics" =>
          /\ metrics'.totalExecutions >= metrics.totalExecutions
          /\ metrics'.totalWaitTimeMs >= metrics.totalWaitTimeMs
          /\ metrics'.totalRetries >= metrics.totalRetries
          /\ metrics'.totalFailures >= metrics.totalFailures
      ]_vars

\* Every counter has grown and getMetrics has been called.
C16_Witness ==
    /\ h.sync = "getMetrics"
    /\ metrics.totalExecutions >= 1
    /\ metrics.totalWaitTimeMs >= 1
    /\ metrics.totalRetries >= 1
    /\ metrics.totalFailures >= 1

\* C17: getConfig and getMetrics hand out the current config and metrics
\* as objects of their own; a write to such an object changes nothing of
\* the limiter, and no step changes the config.
C17_CopiesAndFrozenConfig ==
    [][ /\ config' = config
        /\ h'.sync = "getConfig" =>
              /\ held'.of = "config"
              /\ held'.value = config
              /\ UNCHANGED <<metrics, lastCallTime, pc>>
        /\ h'.sync = "getMetrics" =>
              /\ held'.of = "metrics"
              /\ held'.value = metrics
              /\ UNCHANGED <<metrics, lastCallTime, pc>>
        /\ h'.sync = "mutate" =>
              UNCHANGED <<now, lastCallTime, config, metrics, pc, op, attempt,
                          sleepMs, operationName, lastError, result>>
      ]_vars

\* The caller has set delayMs to 0 in the object it got from getConfig; the
\* limiter's delayMs is as constructed.
C17_Witness ==
    /\ h.sync = "mutate"
    /\ held.of = "config"
    /\ held.value.delayMs = 0
    /\ config.delayMs > 0

\* C18: waitForNextSlot never raises.  Called when at least delayMs has
\* passed since the last call it returns 0 at once and leaves
\* totalWaitTimeMs as it is; otherwise it sleeps delayMs - elapsed, adds
\* that to totalWaitTimeMs and returns it.  Either way lastCallTime becomes
\* the time at which it returns.
C18_WaitForNextSlot ==
    /\ [](h.op = "waitForNextSlot" => result.kind # "raised")
    /\ [][ /\ (h'.op = "waitForNextSlot" /\ h'.calls = h.calls + 1) =>
                LET elapsed == now' - lastCallTime
                IN  IF elapsed >= config.delayMs
                    THEN /\ pc' = "idle"
                         /\ result' = Returned(0)
                         /\ metrics' = metrics
                         /\ lastCallTime' = now'
                    ELSE /\ pc' = "slotSleep"
                         /\ sleepMs' = config.delayMs - elapsed
                         /\ metrics' = metrics
                         /\ lastCallTime' = lastCallTime
           /\ (pc = "slotSleep" /\ op = "waitForNextSlot" /\ pc' # "slotSleep") =>
                /\ pc' = "idle"
                /\ now' >= now + sleepMs
                /\ result' = Returned(sleepMs)
                /\ metrics'.totalWaitTimeMs = metrics.totalWaitTimeMs + sleepMs
                /\ lastCallTime' = now'
         ]_vars

\* waitForNextSlot has slept and returned the time it waited.
C18_Witness ==
    /\ h.op = "waitForNextSlot"
    /\ pc = "idle"
    /\ h.sleeps # << >>
    /\ result = Returned(h.sleeps[1].ms)
    /\ metrics.totalWaitTimeMs = h.before.totalWaitTimeMs + h.sleeps[1].ms
    /\ lastCallTime = now

\* Two execute calls in a row have ended, each after invoking the operation.
TwoExecutesEnded ==
    /\ h.op = "execute"
    /\ h.end # NoNumber
    /\ h.prevEnd # NoNumber
    /\ h.starts # << >>
    /\ h.prevStart # NoNumber

\* C19 as stated: two consecutive execute calls end at least delayMs apart.
C19_CompletionSpacing ==
    TwoExecutesEnded => h.end - h.prevEnd >= config.delayMs

\* C19, amended: the second of two consecutive execute calls ends at least
\* delayMs after the first call's last invocation started, so the two end at
\* least delayMs apart when that invocation took no time.
C19_CompletionAfterStart ==
    TwoExecutesEnded =>
        /\ h.end - h.prevStart >= config.delayMs
        /\ (h.prevEnd = h.prevStart) => (h.end - h.prevEnd >= config.delayMs)

\* The first call's operation took 1 ms, the second call waited for the rest
\* of the delay: the two calls end less than delayMs apart.
C19_Witness ==
    /\ TwoExecutesEnded
    /\ h.prevEnd > h.prevStart
    /\ h.sleeps # << >>
    /\ h.end - h.prevEnd < config.delayMs
    /\ h.end - h.prevStart >= config.delayMs

\* C20: a throttling failure at attempt = maxRetries ends execute without a
\* backoff sleep, adds one to totalFailures and raises a RateLimitError with
\* attemptsMade = maxRetries and retryAfterMs = delayMs * 2^maxRetries.
C20_ThrottlingExhausted ==
    (InExecute /\ Len(h.outcomes) = config.maxRetries
               /\ ThrottledOutcome(Last(h.outcomes))) =>
        /\ pc = "idle"
        /\ sleepMs = 0
        /\ BackoffCount(h.sleeps) = config.maxRetries - 1
        /\ h.end # NoNumber
        /\ metrics.totalFailures = h.before.totalFailures + 1
        /\ metrics.totalRetries = h.before.totalRetries + (config.maxRetries - 1)
        /\ result.kind = "raised"
        /\ result.error.cls = "RateLimitError"
        /\ result.error.attemptsMade = config.maxRetries
        /\ result.error.retryAfterMs = config.delayMs * (2 ^ config.maxRetries)

\* Two throttled attempts out of two with delayMs = 2: retryAfterMs is 8.
C20_Witness ==
    /\ InExecute
    /\ config.maxRetries = 2
    /\ config.delayMs = 2
    /\ Len(h.outcomes) = 2
    /\ ThrottledOutcome(h.outcomes[2])
    /\ result.kind = "raised"
    /\ result.error.retryAfterMs = 8
    /\ result.error.attemptsMade = 2

\* ------------------------------------------------------------------------
\* Properties of extractFromPages (SpecPipe)
\* ------------------------------------------------------------------------
\* The items of the chunks whose execute call returned, in chunk order.
RECURSIVE SuccessfulItems(_)
SuccessfulItems(log) ==
    IF log = << >> THEN << >>
    ELSE (IF Head(log).kind = "returned" THEN Head(log).value ELSE << >>)
         \o SuccessfulItems(Tail(log))

Completed == pipePc = "completed"

\* The last call of onProgress threw.
ProgressThrew == ph.progress # << >> /\ ph.progress[Len(ph.progress)].threw

\* The dedup key as the specification words it.
StatedKey(item) ==
    IF item.hasDescription THEN ToLowerCase(Trim(item.description))
                           ELSE JsonStringify(item)

\* C2: whatever generation calls fail, extractFromPages does not raise (it
\* raises only when the progress callback throws); a
\* failing chunk gets a failed outcome, every later chunk is still
\* processed, and the aggregate holds the items of all successful chunks,
\* each of them represented in the result's items.
C2_ErrorIsolation ==
    /\ pipeResult.kind = "raised" => ProgressThrew
    /\ Len(pageResults) = Len(ph.execLog)
    /\ \A k \in 1..Len(ph.execLog) :
          ph.execLog[k].kind = "raised"
             => (~pageResults[k].success /\ pageResults[k].items = << >>)
    /\ pipePc = "running" => (i = Len(pageResults) /\ i < Len(chunks))
    /\ Completed =>
          /\ pipeResult.kind = "returned"
          /\ Len(ph.execLog) = Len(chunks)
          /\ \A k \in 1..Len(chunks) : ph.genLog[k] # << >>
          /\ ph.aggregate = SuccessfulItems(ph.execLog)
          /\ \A j \in 1..Len(ph.aggregate) :
                \E m \in 1..Len(pipeResult.value.items) :
                   StatedKey(pipeResult.value.items[m]) = StatedKey(ph.aggregate[j])

\* The first of two chunks fails, the second one still yields items.
C2_Witness ==
    /\ Completed
    /\ Len(chunks) = 2
    /\ ph.execLog[1].kind = "raised"
    /\ ph.execLog[2].kind = "returned"
    /\ Len(pipeResult.value.items) = 2

\* The positions of agg whose key occurs at no earlier position.
FirstOccurrences(agg) ==
    {k \in 1..Len(agg) : \A m \in 1..(k - 1) : StatedKey(agg[m]) # StatedKey(agg[k])}

KeepFirst(agg) ==
    LET F[k \in 0..Len(agg)] ==
            IF k = 0 THEN << >>
            ELSE IF k \in FirstOccurrences(agg) THEN Append(F[k - 1], agg[k])
                 ELSE F[k - 1]
    IN  F[Len(agg)]

\* C7: deduplication keeps exactly the first occurrence of each key, in
\* first-seen order; the key is the description lowercased and trimmed
\* when it is a string and the serialized item otherwise.
C7_DedupFirstSeen ==
    Completed =>
        LET r == pipeResult.value.items
            agg == ph.aggregate
        IN  /\ r = KeepFirst(agg)
            /\ \A a, b \in 1..Len(r) : a # b => StatedKey(r[a]) # StatedKey(r[b])
            /\ \A j \in 1..Len(agg) : \E m \in 1..Len(r) : StatedKey(r[m]) = StatedKey(agg[j])

\* "Shared ID" is followed by " SHARED ID\n": only the first one is kept,
\* together with an item that has no description.
C7_Witness ==
    /\ Completed
    /\ Len(ph.aggregate) = 3
    /\ ph.aggregate[1].name = "Original"
    /\ ph.aggregate[2].name = "Duplicate"
    /\ ph.aggregate[3].name = "Bare"
    /\ Len(pipeResult.value.items) = 2
    /\ pipeResult.value.items[1].name = "Original"
    /\ pipeResult.value.items[2].name = "Bare"

\* C8: the result has one outcome per input chunk, in input order and with
\* that chunk's pageNumber; pagesProcessed is the number of chunks,
\* pagesFailed the number of outcomes with success = false.
C8_PageResultsShape ==
    Completed =>
        LET r == pipeResult.value
        IN  /\ Len(r.pageResults) = Len(chunks)
            /\ \A k \in 1..Len(chunks) :
                  /\ r.pageResults[k].pageNumber = chunks[k].pageNumber
                  /\ r.pageResults[k].success = (ph.execLog[k].kind = "returned")
            /\ r.pagesProcessed = Len(chunks)
            /\ r.pagesFailed =
                  Cardinality({k \in 1..Len(r.pageResults) : ~r.pageResults[k].success})
            /\ r.pagesFailed <= r.pagesProcessed

\* Chunks numbered 2 and 1; the first one fails.
C8_Witness ==
    /\ Completed
    /\ Len(chunks) = 2
    /\ chunks[1].pageNumber = 2
    /\ chunks[2].pageNumber = 1
    /\ pipeResult.value.pagesFailed = 1
    /\ ~pipeResult.value.pageResults[1].success

\* C9: itemsBeforeDedup is the number of items the successful chunks
\* returned, totalItems is items.length, and itemsBeforeDedup >= items.length.
C9_ItemCounts ==
    Completed =>
        LET r == pipeResult.value
        IN  /\ r.metrics.itemsBeforeDedup = Len(SuccessfulItems(ph.execLog))
            /\ r.metrics.totalItems = Len(r.items)
            /\ r.metrics.itemsBeforeDedup >= Len(r.items)

\* Two chunks return one item each with the same key.
C9_Witness ==
    /\ Completed
    /\ Len(chunks) = 2
    /\ pipeResult.value.pageResults[1].success
    /\ pipeResult.value.pageResults[2].success
    /\ pipeResult.value.metrics.itemsBeforeDedup = 2
    /\ pipeResult.value.metrics.totalItems = 1

\* The run ended because onProgress threw.
RunFailed == pipePc = "failed"

InFlight == Len(h.starts) - Len(h.outcomes)

\* C12: chunks are processed one at a time in input order: at most one
\* generation call is in flight, the generation calls in progress belong to
\* chunk i + 1 while the outcomes of chunks 1..i are recorded, in input
\* order, and an outcome is recorded only when execute has settled.
C12_Sequential ==
    /\ [](/\ InFlight \in {0, 1}
          /\ (InFlight = 1) <=> (pc = "fn")
          /\ \A k \in 1..Len(pageResults) :
                pageResults[k].pageNumber = chunks[k].pageNumber
          /\ pipePc = "running" =>
                /\ Len(pageResults) = i
                /\ h.calls = i + 1
                /\ operationName =
                      <<"Page", ToString(chunks[i + 1].pageNumber), "extraction">>)
    /\ [][ /\ Len(pageResults') # Len(pageResults) =>
                /\ InFlight = 0
                /\ result.kind # "none"
                /\ Len(pageResults') = Len(pageResults) + 1
           /\ (h'.starts # << >> /\ h'.starts # h.starts) =>
                /\ pipePc' = "running"
                /\ Len(pageResults') = h'.calls - 1
         ]_vars

\* The generation call of the second chunk is in flight after the first
\* chunk, with another page number, has failed.
C12_Witness ==
    /\ pipePc = "running"
    /\ pc = "fn"
    /\ i = 1
    /\ chunks[1].pageNumber # chunks[2].pageNumber
    /\ ~pageResults[1].success

\* C13: a progress callback is called once for every chunk the loop
\* reaches, in chunk order and before the chunk's first generation call,
\* with (i + 1, chunks.length, "Processing page <pageNumber>"), whether the
\* chunk then fails or succeeds.
C13_ProgressPerChunk ==
    /\ onProgress = "absent" => ph.progress = << >>
    /\ onProgress = "present" =>
          /\ \A k \in 1..Len(ph.progress) :
                /\ ph.progress[k].current = k
                /\ ph.progress[k].total = Len(chunks)
                /\ ph.progress[k].status =
                      <<"Processing page", ToString(chunks[k].pageNumber)>>
          /\ (pipePc = "running" \/ RunFailed) => Len(ph.progress) = i + 1
          /\ (pipePc = "running" /\ h.starts # << >>) => Len(ph.progress) = h.calls
          /\ Len(ph.execLog) <= Len(ph.progress)
          /\ Completed => Len(ph.progress) = Len(chunks)

\* Chunks numbered 2 and 1: the first one fails, the second one succeeds,
\* and the callback was called for both.
C13_Witness ==
    /\ Completed
    /\ onProgress = "present"
    /\ Len(ph.progress) = 2
    /\ chunks[1].pageNumber = 2
    /\ ph.progress[1].status = <<"Processing page", "2">>
    /\ ph.execLog[1].kind = "raised"
    /\ ph.execLog[2].kind = "returned"

RECURSIVE SumConfidence(_)
SumConfidence(items) ==
    IF items = << >> THEN 0 ELSE Head(items).confidence + SumConfidence(Tail(items))

\* C10: averageConfidence is omitted whenever some item of the result has no
\* numeric confidence, and when present it is the mean of the confidences.
C10_AverageOnlyIfAll ==
    Completed =>
        LET items == pipeResult.value.items
            avg == pipeResult.value.metrics.averageConfidence
            allNumeric == \A k \in 1..Len(items) : items[k].hasConfidence
        IN  /\ ~allNumeric => ~avg.defined
            /\ avg.defined =>
                  /\ allNumeric
                  /\ avg.count = Len(items)
                  /\ avg.total = SumConfidence(items)

\* ------------------------------------------------------------------------
\* Properties of a run whose generation calls fail (SpecFail)
\* ------------------------------------------------------------------------
\* The message of the failure itself, as generateObject or buildPrompt threw
\* it: wrapError keeps the original Error as the cause.
OwnMessage(e) == IF e.cause # << >> THEN e.cause[1] ELSE e.message

\* The text holds one of the throttling substrings, whatever the case.
MentionsThrottling(msg) ==
    \E p \in ThrottlePatterns : Includes(ToLowerCase(msg), p)

\* The generation call failed and the failure's own message holds none of
\* the throttling substrings.
FailedWithoutThrottling(o) == ~o.ok /\ ~MentionsThrottling(OwnMessage(o.error))

\* C21: whatever the extractor and maxRetries, a generation call that fails
\* with a failure whose own message holds no throttling substring is the
\* last one made for its chunk (the only one when it is the first), the
\* chunk's outcome is a failure, and the run goes on.
C21_NoRetryOfOtherFailure ==
    /\ \A k \in 1..Len(ph.genLog) :
          LET os == ph.genLog[k]
          IN  \A j \in 1..Len(os) :
                 FailedWithoutThrottling(os[j])
                    => (j = Len(os) /\ ~pageResults[k].success)
    /\ (pipePc = "running" /\ h.outcomes # << >>
           /\ FailedWithoutThrottling(Last(h.outcomes)))
          => (pc = "idle" /\ result.kind = "raised")

\* Throttling was exhausted for the chunk whose generation outcomes are os:
\* all maxRetries calls failed with throttling.
ThrottlingExhausted(os) == Len(os) = config.maxRetries /\ AllThrottled(os)

\* C23: in every per-chunk outcome, error and errorCode are present exactly
\* when success is false; a failed outcome has no items and the message and
\* code of the failure execute raised for the chunk (RATE_LIMIT when
\* throttling was exhausted); a successful outcome has exactly the items
\* the chunk's generation call returned.
C23_OutcomeFields ==
    /\ Len(pageResults) = Len(ph.execLog)
    /\ \A k \in 1..Len(pageResults) :
          LET r == pageResults[k]
              res == ph.execLog[k]
              os == ph.genLog[k]
          IN  /\ ("error" \in DOMAIN r) <=> ~r.success
              /\ ("errorCode" \in DOMAIN r) <=> ~r.success
              /\ r.success <=> res.kind = "returned"
              /\ ~r.success =>
                    /\ r.items = << >>
                    /\ r.error = res.error.message
                    /\ r.errorCode = res.error.code
                    /\ ThrottlingExhausted(os) => r.errorCode = "RATE_LIMIT"
              /\ r.success =>
                    /\ r.items = res.value
                    /\ Last(os).ok
                    /\ r.items = Last(os).value

\* The first chunk was given up after throttling on every call, the second
\* returned one item.
C23_Witness ==
    /\ Len(pageResults) = 2
    /\ ~pageResults[1].success
    /\ pageResults[1].errorCode = "RATE_LIMIT"
    /\ ThrottlingExhausted(ph.genLog[1])
    /\ pageResults[2].success
    /\ Len(pageResults[2].items) = 1

\* C24: every failure that leaves extractSingle (h.outcomes holds what each
\* call of it returned or threw) and every failure that leaves execute is an
\* ExtractionError, whatever failed: building the prompt, the generation or
\* the validation of its output.
C24_OnlyTypedFailures ==
    /\ \A k \in 1..Len(h.outcomes) :
          ~h.outcomes[k].ok => IsExtractionError(h.outcomes[k].error)
    /\ result.kind = "raised" => IsExtractionError(result.error)

\* The generation failures other than a schema mismatch.
OtherGenerationMessages ==
    {e.message : e \in GenErrors \cup {UnparseableOutput}}

\* C25: extractSingle throws a SchemaValidationError, code
\* SCHEMA_VALIDATION_FAILED, when the generation output does not match the
\* schema, and an ExtractionError with another code when the generation
\* fails otherwise.
C25_SchemaFailureHasItsCode ==
    \A k \in 1..Len(h.outcomes) :
        LET o == h.outcomes[k]
        IN  ~o.ok =>
              /\ OwnMessage(o.error) = SchemaMismatch.message
                    => /\ o.error.cls = "SchemaValidationError"
                       /\ o.error.code = "SCHEMA_VALIDATION_FAILED"
              /\ OwnMessage(o.error) \in OtherGenerationMessages
                    => /\ IsExtractionError(o.error)
                       /\ o.error.code # "SCHEMA_VALIDATION_FAILED"

\* ------------------------------------------------------------------------
\* Properties of the classification of failures (SpecClassify)
\* ------------------------------------------------------------------------
\* execute took the last failure for throttling: it backs off and retries,
\* or it gives up with its own "Rate limit exceeded" error.
TakenForThrottling ==
    \/ pc \in {"backoff", "slotSleep", "fn"}
    \/ /\ pc = "idle"
       /\ result.kind = "raised"
       /\ result.error.cls = "RateLimitError"
       /\ Includes(result.error.message, "exceeded after")

\* execute took the last failure for another failure: it raises at once
\* what wrapError makes of it.
TakenForOtherFailure ==
    /\ pc = "idle"
    /\ result = Raised(WrapError(AsError(Last(h.outcomes).error), operationName))

\* C22: a failure is taken for throttling exactly when its message, in
\* lower case, holds "429", "rate limit", "rate_limit", "quota" or "too many
\* requests"; any other failure is taken for non-throttling, whatever its
\* class and code.
C22_ThrottlingClassification ==
    (InExecute /\ ~Last(h.outcomes).ok) =>
        LET msg == Last(h.outcomes).error.message
            lower == ToLowerCase(msg)
            mentions == \/ Includes(lower, "429")
                        \/ Includes(lower, "rate limit")
                        \/ Includes(lower, "rate_limit")
                        \/ Includes(lower, "quota")
                        \/ Includes(lower, "too many requests")
        IN  /\ mentions => (TakenForThrottling /\ ~TakenForOtherFailure)
            /\ ~mentions => (TakenForOtherFailure /\ ~TakenForThrottling)

\* A failure with code SCHEMA_VALIDATION_FAILED whose message says "Quota"
\* was retried, and the failure with code RATE_LIMIT that followed, whose
\* message holds none of the patterns, was raised at once.
C22_Witness ==
    /\ InExecute
    /\ Len(h.outcomes) = 2
    /\ ~h.outcomes[1].ok
    /\ h.outcomes[1].error.code = "SCHEMA_VALIDATION_FAILED"
    /\ h.outcomes[2] = Failure(RateLimitError(<<"Slow down">>, 0, 0))
    /\ pc = "idle"
    /\ result = Raised(RateLimitError(<<"Slow down">>, 0, 0))

\* ------------------------------------------------------------------------
\* Properties of the splitting utilities (SpecSplit)
\* ------------------------------------------------------------------------
\* The positions at which the delimiter stands in the text.
Occurrences(text, delimiter) ==
    {at \in 0..Len(text) : MatchesAt(text, delimiter, at)}

\* The occurrences met when reading the text from position from on, each
\* one looked for behind the end of the one before.
RECURSIVE SeparatorsFrom(_, _, _)
SeparatorsFrom(text, delimiter, from) ==
    LET ahead == {at \in Occurrences(text, delimiter) : at >= from}
    IN  IF ahead = {} THEN << >>
        ELSE LET at == CHOOSE a \in ahead : \A b \in ahead : a <= b
             IN  <<at>> \o SeparatorsFrom(text, delimiter, at + Len(delimiter))

\* C27 as claimed: a text with n occurrences of the delimiter gives n + 1
\* chunks numbered 1..n+1, and an empty text gives one chunk with empty
\* content.
C27_OnePagePerOccurrence ==
    split.op = "splitIntoPages" =>
        LET n == Cardinality(Occurrences(split.text, split.delimiter))
        IN  /\ Len(split.pages) = n + 1
            /\ \A k \in 1..Len(split.pages) : split.pages[k].pageNumber = k
            /\ split.text = << >> => split.pages = <<PageChunk(<< >>, 1)>>

\* C27: with n the number of occurrences of a non-empty delimiter met from
\* the left, each looked for behind the one before, splitIntoPages gives
\* n + 1 chunks in text order, chunk k holding the trimmed text between
\* occurrence k - 1 and occurrence k, numbered 1..n+1; n is the number of
\* all occurrences when no two of them overlap; an empty text gives one
\* chunk with empty content.  With the empty delimiter there is one chunk
\* per character, none for an empty text.
C27_PagesBetweenSeparators ==
    split.op = "splitIntoPages" =>
        LET text == split.text
            delimiter == split.delimiter
            pages == split.pages
            seps == SeparatorsFrom(text, delimiter, 0)
            n == Len(seps)
            lo(k) == IF k = 1 THEN 0 ELSE seps[k - 1] + Len(delimiter)
            hi(k) == IF k = n + 1 THEN Len(text) ELSE seps[k]
            all == Occurrences(text, delimiter)
        IN  /\ \A k \in 1..Len(pages) : pages[k].pageNumber = k
            /\ delimiter # << >> =>
                  /\ Len(pages) = n + 1
                  /\ \A k \in 1..(n + 1) :
                        pages[k].content = Trim(Slice(text, lo(k), hi(k)))
                  /\ (\A a, b \in all : a < b => a + Len(delimiter) <= b)
                        => n = Cardinality(all)
                  /\ text = << >> => pages = <<PageChunk(<< >>, 1)>>
            /\ delimiter = << >> =>
                  /\ Len(pages) = Len(text)
                  /\ \A k \in 1..Len(text) : pages[k].content = Trim(<<text[k]>>)

\* The delimiter stands twice in the text, the second time overlapping the
\* first, and two chunks come out.
C27_Witness ==
    /\ split.op = "splitIntoPages"
    /\ split.delimiter = <<"\n", "-", "\n">>
    /\ Cardinality(Occurrences(split.text, split.delimiter)) = 2
    /\ Len(split.pages) = 2
    /\ split.pages[2].content = <<"-">>

\* C28: whatever the text and maxChunkSize >= 1, and whichever break was
\* taken, no chunk of chunkBySize has content longer than maxChunkSize.
C28_ChunkWithinSize ==
    split.op = "chunkBySize" =>
        \A k \in 1..Len(split.pages) :
            Len(split.pages[k].content) <= split.maxChunkSize

\* C29: whatever the text, every chunk of chunkBySize has content that is
\* not empty after trimming.
C29_ChunksNotEmpty ==
    split.op = "chunkBySize" =>
        \A k \in 1..Len(split.pages) : Trim(split.pages[k].content) # << >>

\* The text is made of the contents in their order, with nothing but
\* whitespace before, between and after them.
RECURSIVE Covers(_, _)
Covers(text, contents) ==
    IF contents = << >> THEN Trim(text) = << >>
    ELSE LET rest == TrimStart(text)
             content == Head(contents)
         IN  /\ Len(content) <= Len(rest)
             /\ SubSeq(rest, 1, Len(content)) = content
             /\ Covers(SubSeq(rest, Len(content) + 1, Len(rest)), Tail(contents))

\* C30: chunkBySize loses, repeats and reorders nothing: the text is the
\* chunk contents in pageNumber order with only whitespace dropped before,
\* between and after them, and the pageNumbers are 1..n in order.
C30_NoContentLost ==
    split.op = "chunkBySize" =>
        /\ Covers(split.text, [k \in 1..Len(split.pages) |-> split.pages[k].content])
        /\ \A k \in 1..Len(split.pages) : split.pages[k].pageNumber = k

\* A text cut at a paragraph break: two chunks, and the whitespace at the
\* break is gone.
C30_Witness ==
    /\ split.op = "chunkBySize"
    /\ split.maxChunkSize = 2
    /\ Len(split.pages) = 2
    /\ MatchesAt(split.text, ParagraphBreak, 2)
    /\ split.pages[1].content = <<"a", "a">>
    /\ Len(split.pages[1].content) + Len(split.pages[2].content)
          < Len(Trim(split.text))

\* ------------------------------------------------------------------------
\* Properties of the route (SpecRoute)
\* ------------------------------------------------------------------------
\* The request names no registered extractor, has no readable body, or has
\* a body without a non-empty text or with pages that are not a list of
\* {content, pageNumber} objects.
Malformed(req) ==
    \/ req.type \notin RegisteredExtractors
    \/ ~req.json
    \/ ~req.body.text.present
    \/ req.body.text.value = << >>
    \/ /\ req.body.pages.present
       /\ \/ ~req.body.pages.value.isArray
          \/ \E k \in 1..Len(req.body.pages.value.elements) :
                "pageNumber" \notin DOMAIN req.body.pages.value.elements[k]

\* C26: a malformed request (unknown extractor type, invalid body,
\* malformed chunk list) is answered with a failure before any chunk is
\* processed: no call goes through the limiter and no chunk outcome is
\* produced.
C26_MalformedFailsFast ==
    (response # NoResponse /\ Malformed(response.request)) =>
        /\ response.sent
        /\ response.status \in {400, 500}
        /\ pipePc = "idle"
        /\ h.calls = 0
        /\ pageResults = << >>

\* ------------------------------------------------------------------------
\* Properties of wrapError (SpecWrap)
\* ------------------------------------------------------------------------
\* The message wrapError gives a value that is not an ExtractionError.
WrappedMessage(e, context) ==
    IF context = << >> THEN e.message ELSE context \o <<":">> \o e.message

\* The failed chunks whose last generation call raised an ExtractionError.
TypedFailures ==
    {k \in 1..Len(pageResults) :
        /\ ~pageResults[k].success
        /\ Last(ph.genLog[k]).raw.stage = "generate"
        /\ IsExtractionError(Last(ph.genLog[k]).raw.error)}

RawFailure(k) == Last(ph.genLog[k]).raw.error

\* C31 as stated: wrapError returns an ExtractionError as it is; every
\* other value becomes an ExtractionError with code UNKNOWN, the message
\* prefixed by the context, and the original as cause; wrapping twice is
\* wrapping once; the code of a typed generation failure is the errorCode
\* of its chunk, whatever the failure says.
C31_WrapKeepsCodeAndCause ==
    /\ split # NoSplit =>
          /\ IsExtractionError(split.error) => split.returned = split.error
          /\ ~IsExtractionError(split.error) =>
                /\ split.returned.cls = "ExtractionError"
                /\ split.returned.code = "UNKNOWN"
                /\ split.returned.message = WrappedMessage(split.error, split.context)
                /\ split.returned.cause = <<split.error.message>>
          /\ split.rewrapped # << >> => split.rewrapped[1].returned = split.returned
    /\ \A k \in TypedFailures : pageResults[k].errorCode = RawFailure(k).code

\* C31, amended: the cause is kept only for a value that is an Error, and
\* the code of a typed generation failure is the errorCode of its chunk
\* unless execute takes its message for throttling, in which case the
\* errorCode is RATE_LIMIT.
C31_WrapKeepsTypedFailures ==
    /\ split # NoSplit =>
          /\ IsExtractionError(split.error) => split.returned = split.error
          /\ ~IsExtractionError(split.error) =>
                /\ split.returned.cls = "ExtractionError"
                /\ split.returned.code = "UNKNOWN"
                /\ split.returned.message = WrappedMessage(split.error, split.context)
                /\ split.returned.cause =
                       IF split.error.cls = "NonError" THEN << >>
                       ELSE <<split.error.message>>
          /\ split.rewrapped # << >> => split.rewrapped[1].returned = split.returned
    /\ \A k \in TypedFailures :
          /\ pageResults[k].errorCode =
                 IF MentionsThrottling(RawFailure(k).message) THEN "RATE_LIMIT"
                 ELSE RawFailure(k).code
          /\ ~MentionsThrottling(RawFailure(k).message) =>
                 pageResults[k].error = RawFailure(k).message

\* A chunk failed with a TIMEOUT failure and is recorded with that code,
\* after another chunk whose typed failure read as throttling.
C31_Witness ==
    /\ Len(pageResults) = 2
    /\ TypedFailures = {1, 2}
    /\ RawFailure(1).code = "SCHEMA_VALIDATION_FAILED"
    /\ pageResults[1].errorCode = "RATE_LIMIT"
    /\ RawFailure(2).code = "TIMEOUT"
    /\ pageResults[2].errorCode = "TIMEOUT"

\* ------------------------------------------------------------------------
\* Properties of the break chunkBySize chooses (SpecSplit)
\* ------------------------------------------------------------------------
\* The positions up to maxChunkSize where pattern stands in text and which
\* lie beyond half of maxChunkSize, or at half of it as well.
BreaksBeyondHalf(text, pattern, maxChunkSize) ==
    {at \in 0..maxChunkSize : MatchesAt(text, pattern, at) /\ 2 * at > maxChunkSize}

BreaksFromHalf(text, pattern, maxChunkSize) ==
    {at \in 0..maxChunkSize : MatchesAt(text, pattern, at) /\ 2 * at >= maxChunkSize}

Greatest(S) == CHOOSE at \in S : \A other \in S : other <= at

LongText == split.op = "chunkBySize" /\ Len(split.text) > split.maxChunkSize

\* C32 as stated: a text longer than maxChunkSize is cut at the last
\* paragraph break that lies at or after half of maxChunkSize, otherwise
\* behind the last sentence end that lies at or after half of it,
\* otherwise at maxChunkSize.
C32_BreakFromHalf ==
    LongText =>
        LET paragraphs == BreaksFromHalf(split.text, ParagraphBreak, split.maxChunkSize)
            sentences == BreaksFromHalf(split.text, SentenceBreak, split.maxChunkSize)
            cut == IF paragraphs # {} THEN Greatest(paragraphs)
                   ELSE IF sentences # {} THEN Greatest(sentences) + 1
                   ELSE split.maxChunkSize
        IN  split.pages[1].content = Trim(Slice(split.text, 0, cut))

\* C32, amended: the break has to lie beyond half of maxChunkSize; one
\* that lies exactly at half of it is not taken.
C32_BreakBeyondHalf ==
    LongText =>
        LET paragraphs == BreaksBeyondHalf(split.text, ParagraphBreak, split.maxChunkSize)
            sentences == BreaksBeyondHalf(split.text, SentenceBreak, split.maxChunkSize)
        IN  /\ split.splitIndex =
                  IF paragraphs # {} THEN Greatest(paragraphs)
                  ELSE IF sentences # {} THEN Greatest(sentences) + 1
                  ELSE split.maxChunkSize
            /\ split.pages[1].content = Trim(Slice(split.text, 0, split.splitIndex))

\* The text is cut at a paragraph break although a sentence ends beyond
\* half of maxChunkSize as well.
C32_Witness ==
    /\ LongText
    /\ MatchesAt(split.text, ParagraphBreak, split.splitIndex)
    /\ BreaksBeyondHalf(split.text, SentenceBreak, split.maxChunkSize) # {}

\* ------------------------------------------------------------------------
\* Properties of a RateLimiter with two callers (SpecShared)
\* ------------------------------------------------------------------------
\* The invocations the first caller started in its current execute call
\* and the last one before it.
OwnStarts ==
    {h.starts[k] : k \in 1..Len(h.starts)}
    \cup (IF h.prevStart # NoNumber THEN {h.prevStart} ELSE {})

PeerStarts == {peer.starts[k] : k \in 1..Len(peer.starts)}

\* C33: the invocations of two callers of one RateLimiter start at least
\* delayMs apart.
C33_SpacingAcrossCallers ==
    \A a \in OwnStarts, b \in PeerStarts :
        a - b >= config.delayMs \/ b - a >= config.delayMs

\* ------------------------------------------------------------------------
\* Properties of two runs at a time (SpecRuns)
\* ------------------------------------------------------------------------
\* The limiter of a run has the limits of the run's extractor, or the
\* default ones.
OwnLimits ==
    /\ pipePc # "idle" => config = LimiterConfigOf(extractor)
    /\ peer.calls > 0 => peer.limiter.config = LimiterConfigOf(peer.extractor)
    /\ (peer.calls > 0 /\ peer.extractor.rateLimit = << >>) =>
           peer.limiter.config = [delayMs |-> 7000, maxRetries |-> 3]

\* A step of one run leaves the limiter of the other run and both extractor
\* definitions as they are, and a run waits for what its own limiter
\* tells.
RunsApart ==
    /\ peer' # peer => UNCHANGED <<lastCallTime, metrics, config>>
    /\ <<lastCallTime, metrics, config>>' # <<lastCallTime, metrics, config>> =>
           peer' = peer
    /\ pipePc # "idle" => extractor' = extractor
    /\ peer.calls > 0 => peer'.extractor = peer.extractor
    /\ (peer.pc = "idle" /\ peer'.pc = "slotSleep") =>
           peer'.waited = peer.limiter.config.delayMs - (now - peer.limiter.lastCallTime)

\* C34: every extractFromPages call has a RateLimiter of its own, made from
\* the extractor's rateLimit or the default 7000 ms / 3 attempts; two runs
\* at a time do not touch each other's last-call timestamp or metrics, and
\* no run changes the extractor definition.
C34_RunsHaveOwnLimiter == []OwnLimits /\ [][RunsApart]_vars

\* Two runs with the same extractor are in progress, each with invocations
\* made, and their limiters differ.
C34_Witness ==
    /\ pipePc = "running"
    /\ h.starts # << >>
    /\ peer.calls = 1
    /\ peer.left > 0
    /\ peer.starts # << >>
    /\ peer.extractor = extractor
    /\ peer.limiter.lastCallTime # lastCallTime
    /\ peer.limiter.metrics # metrics

\* ------------------------------------------------------------------------
\* Properties of the first call on a new RateLimiter (Spec)
\* ------------------------------------------------------------------------
\* The first operation is in progress or over, and nothing followed it.
FirstCall == h.calls = 1

\* The first waitForNextSlot is asleep; the clock has not moved since it
\* was entered.
InFirstSlotSleep == FirstCall /\ pc = "slotSleep" /\ Len(h.sleeps) = 1

\* C35: the first waitForNextSlot on a new RateLimiter, alone or as the
\* opening of the first attempt of the first execute, does not wait when
\* the clock is at or beyond delayMs: it sleeps only with the clock below
\* delayMs, and when it has not slept it returns 0, totalWaitTimeMs stays
\* 0 and the invocation starts at the time of the call.
C35_FirstSlotFree ==
    /\ InFirstSlotSleep =>
          /\ now < config.delayMs
          /\ sleepMs = config.delayMs - now
    /\ (FirstCall /\ h.sleeps = << >>) =>
          /\ metrics.totalWaitTimeMs = 0
          /\ (h.op = "waitForNextSlot" /\ h.end # NoNumber) =>
                /\ result = Returned(0)
                /\ h.end >= config.delayMs
                /\ lastCallTime = h.end
          /\ (h.op = "execute" /\ h.starts # << >>) =>
                /\ h.starts[1] >= config.delayMs
                /\ Len(h.starts) = 1 => lastCallTime = h.starts[1]

\* The first waitForNextSlot of a limiter that spaces its calls has
\* returned 0 without waiting.
C35_Witness ==
    /\ FirstCall
    /\ h.op = "waitForNextSlot"
    /\ h.end # NoNumber
    /\ config.delayMs > 0
    /\ h.sleeps = << >>
    /\ result = Returned(0)
    /\ metrics.totalWaitTimeMs = 0

\* ------------------------------------------------------------------------
\* Properties of the attempt that follows a backoff (Spec)
\* ------------------------------------------------------------------------
\* What the waitForNextSlot of the first attempt slept, 0 when it did not.
FirstSlotWait ==
    IF h.sleeps # << >> /\ h.sleeps[1].kind = "slot" THEN h.sleeps[1].ms ELSE 0

\* 2^1 * delayMs + ... + 2^n * delayMs
RECURSIVE BackoffTotal(_, _)
BackoffTotal(n, delayMs) ==
    IF n <= 0 THEN 0 ELSE Pow2(n) * delayMs + BackoffTotal(n - 1, delayMs)

\* C36: in an execute call no wait for the slot follows a backoff; once
\* attempt k+1 has started, the call has added to totalWaitTimeMs the wait
\* of its first slot and the backoffs 2^1 * delayMs .. 2^k * delayMs and
\* nothing else, and attempts k and k+1 started at least 2^k * delayMs
\* apart.
C36_NoWaitAfterBackoff ==
    (h.op = "execute" /\ h.starts # << >>) =>
        /\ \A j \in 2..Len(h.sleeps) : h.sleeps[j].kind = "backoff"
        /\ pc # "slotSleep"
        /\ metrics.totalWaitTimeMs - h.before.totalWaitTimeMs =
               FirstSlotWait + BackoffTotal(Len(h.starts) - 1, config.delayMs)
        /\ \A k \in 1..(Len(h.starts) - 1) :
               h.starts[k + 1] - h.starts[k] >= Pow2(k) * config.delayMs

\* The third attempt of an execute call on a limiter that spaces its calls
\* has started, after two backoffs.
C36_Witness ==
    /\ h.op = "execute"
    /\ Len(h.starts) = 3
    /\ config.delayMs > 0
    /\ BackoffCount(h.sleeps) = 2
    /\ metrics.totalWaitTimeMs - h.before.totalWaitTimeMs >= 6 * config.delayMs

\* ------------------------------------------------------------------------
\* Properties of the way execute ends (Spec)
\* ------------------------------------------------------------------------
ExecuteEnded == h.op = "execute" /\ pc = "idle"

\* execute returned from the try block: the last invocation succeeded and
\* was counted.
EndedByReturn ==
    /\ result.kind = "returned"
    /\ Last(h.outcomes).ok
    /\ metrics.totalExecutions = h.before.totalExecutions + 1
    /\ metrics.totalFailures = h.before.totalFailures

\* execute raised from the catch block: the last invocation failed, the
\* failure was counted and a typed error was raised.
EndedByFailureBranch ==
    /\ result.kind = "raised"
    /\ IsExtractionError(result.error)
    /\ ~Last(h.outcomes).ok
    /\ metrics.totalFailures = h.before.totalFailures + 1
    /\ metrics.totalExecutions = h.before.totalExecutions

RECURSIVE CallsLogged(_)
CallsLogged(log) ==
    IF log = << >> THEN 0 ELSE Len(Head(log)) + CallsLogged(Tail(log))

\* C38: when onProgress has thrown for chunk i the run has failed with what
\* onProgress threw and has no result; no outcome is recorded for chunk i,
\* execute was called for the i chunks before it only, no generation call
\* is under way, and the run takes no further step.
C38_ProgressFailureEndsRun ==
    /\ [](ProgressThrew =>
            /\ RunFailed
            /\ pipeResult = Raised(ProgressError)
            /\ Len(ph.progress) = i + 1
            /\ Len(pageResults) = i
            /\ Len(ph.execLog) = i
            /\ h.calls = i
            /\ pc = "idle"
            /\ InFlight = 0
            /\ i > 0 => CallsLogged(ph.genLog) >= i)
    /\ [][~ProgressThrew]_vars

\* onProgress threw for the first of two chunks: neither chunk got a
\* generation call and the run has no result.
C38_Witness ==
    /\ ProgressThrew
    /\ RunFailed
    /\ i = 0
    /\ Len(chunks) = 2
    /\ pageResults = << >>
    /\ h.calls = 0
    /\ h.starts = << >>
    /\ pipeResult.kind = "raised"

\* ------------------------------------------------------------------------
\* Properties of lastExecutionAt (SpecMetrics)
\* ------------------------------------------------------------------------
\* The execute call has just returned and the metrics were not reset since.
JustSucceeded ==
    /\ ExecuteEnded
    /\ result.kind = "returned"
    /\ h.sync = "none"

\* C39: lastExecutionAt is defined exactly when totalExecutions > 0, that
\* is when an execute call has succeeded since the construction or the last
\* reset; it is never ahead of the clock, and when execute has just
\* returned it is the instant of the return, not earlier than the
\* lastCallTime stamped when the successful attempt started.
C39_LastExecutionDated ==
    /\ (metrics.lastExecutionAt # NoNumber) <=> (metrics.totalExecutions > 0)
    /\ (metrics.totalExecutions > 0) <=> (h.returned > 0)
    /\ metrics.lastExecutionAt <= now
    /\ JustSucceeded =>
          /\ metrics.lastExecutionAt = h.end
          /\ lastCallTime = Last(h.starts)
          /\ metrics.lastExecutionAt >= lastCallTime

\* An execute call has succeeded after a reset, its invocation having taken
\* time: lastExecutionAt is later than the attempt's lastCallTime.
C39_Witness ==
    /\ JustSucceeded
    /\ h.calls = 2
    /\ metrics.totalExecutions = 1
    /\ h.before = ZeroMetrics
    /\ metrics.lastExecutionAt > lastCallTime

\* ------------------------------------------------------------------------
\* Properties of the loop of chunkBySize (SpecChunkingFair)
\* ------------------------------------------------------------------------
\* An iteration leaves less text than it found and pushes one chunk.
IterationShortens ==
    (InChunkLoop /\ split'.op = "chunkBySizeLoop" /\ ~split'.returned) =>
        /\ Len(split'.remaining) < Len(split.remaining)
        /\ Len(split'.pages) = Len(split.pages) + 1

\* C40: for maxChunkSize >= 1 every call of chunkBySize returns; each
\* iteration strictly shortens the remaining text, so no more chunks are
\* pushed than the text has characters; an empty text yields no chunk.
C40_ChunkingTerminates ==
    /\ [][IterationShortens]_vars
    /\ [](split.op = "chunkBySizeLoop" =>
            /\ Len(split.pages) + Len(split.remaining) <= Len(split.text)
            /\ (split.returned /\ split.text = << >>) => split.pages = << >>
            /\ split.returned => split.pages = ChunkBySize(split.text,
                                                           split.maxChunkSize))
    /\ InChunkLoop ~> (split.op = "chunkBySizeLoop" /\ split.returned)

\* A call has returned after more than two iterations, one of which cut
\* the text at a sentence end or a paragraph break.
C40_Witness ==
    /\ split.op = "chunkBySizeLoop"
    /\ split.returned
    /\ Len(split.pages) >= 3
    /\ split.maxChunkSize >= 2
    /\ \E k \in 1..Len(split.pages) :
           Len(split.pages[k].content) < split.maxChunkSize - 1
====
